---- MODULE Spec2Model ----
\* Product synchronisation between Moysklad (ERP) and Shopify (storefront):
\* ProductSyncService of src/services/pruduct_sync_service.py as a state machine.
\*
\* Time is counted in hours.  The clock advances when sync_products has taken
\* its start timestamp, so a write is always stamped later than the start of
\* the run it belongs to, and by `tick` during every remote write.
EXTENDS Integers, Sequences, FiniteSets, TLC

\* ---------------------------------------------------------------- constants

BATCH_SIZE == 50
MAX_CONCURRENT_TASKS == 5
\* @retry(stop=stop_after_attempt(3), ...)
StopAfterAttempt == 3
\* timedelta(hours=24)
LookbackHours == 24
\* Python's None: no watermark, no identity key, no updated_at, no id.
None == 0

\* ------------------------------------------------------------------- bounds

\* identity keys of the catalogs of Init are 1..MaxKeys
MaxKeys == 1
\* updated_at of a record of Init that is older than the lookback window
OldStamp == 1
\* updated_at of a record of Init that is inside the lookback window
RecentStamp == 30
\* the clock of Init
StartClock == 40
\* sync_products calls per behaviour
MaxRuns == 2
\* exceptions remote mutation calls raise per behaviour
MaxFaults == 3
\* the identity keys 1..MaxFlaky are those whose remote mutation may raise
MaxFlaky == 1
\* systemic errors per behaviour: a catalog fetch or a direction's own code raises
MaxSysFaults == 1
\* modifications of catalog records by users of the platforms, per behaviour
MaxTouches == 1
\* sync_products calls made while another call is in progress, per behaviour
MaxOverlap == 1

\* the two direction tasks of sync_products
Directions == {"ms2sh", "sh2ms"}

\* everything that hands tasks to the scheduler: the directions of
\* sync_products, sync_product_inventory and the two price directions
Workers == Directions \cup {"inventory", "price_ms2sh", "price_sh2ms"}

Min(a, b) == IF a < b THEN a ELSE b

\* -------------------------------------------------------------------- state

VARIABLES
    now,                    \* datetime.now()
    tick,                   \* how far the clock moves during a remote write
    faults,                 \* exceptions remote mutation calls may still raise
    sys_faults,             \* systemic errors that may still happen
    config,                 \* self.config
    flaky,                  \* identity keys whose remote mutation may raise
    touches,                \* the edits users of the platforms made, in order
    second,                 \* a sync_products call made while another runs
    job,                    \* the run_complete_sync / run_incremental_sync call
    req,                    \* the request a platform client is working on
    entry,                  \* the run of main(): SyncService.sync_products_to_moysklad
    msCat,                  \* the Moysklad catalog (remote), a sequence of records
    shCat,                  \* the Shopify catalog (remote), a sequence of records
    last_sync_time,         \* self.last_sync_time
    pc,                     \* where the running public operation is suspended
    full_sync,              \* argument of the running operation
    start_time,
    modified_since,
    moysklad_products,
    shopify_products,
    all_moysklad_products,
    all_shopify_products,
    dir,                    \* the two direction tasks of asyncio.gather
    outcome,                \* how the last sync_products call ended
    runs,                   \* sync_products calls started
    prev_sync_time,         \* last_sync_time when the running call started
    prev,                   \* what the previous sync_products call did
    issued,                 \* remote mutation calls sent by the current call
    settled                 \* actions settled by the current call

vars == <<now, tick, faults, sys_faults, config, flaky, job, req, entry, touches, second, msCat, shCat, last_sync_time, pc, full_sync,
          start_time, modified_since, moysklad_products, shopify_products,
          all_moysklad_products, all_shopify_products, dir, outcome, runs,
          prev_sync_time, prev, issued, settled>>

\* ------------------------------------------------------------------ records

\* The identity key of a record: code on Moysklad, sku on Shopify.  A stock
\* quantity is <<n>>, and <<>> where Python has None (0 is a stock); a price is
\* a positive number, or None.  A Shopify product has one variant and one
\* inventory item, identified with the product.
MsProduct(id, code, updated_at, stock, price) ==
    [id |-> id, code |-> code, updated_at |-> updated_at, stock |-> stock,
     price |-> price]

ShProduct(id, sku, updated_at, inventory_quantity, price) ==
    [id |-> id, sku |-> sku, updated_at |-> updated_at,
     inventory_quantity |-> inventory_quantity, price |-> price]

\* dict.get() on a missing key
NoProduct == [id |-> None]

\* hasattr(p, 'updated_at')
HasUpdatedAt(p) == p.updated_at # None

\* ---------------------------------------------------------- collaborators

\* get_all_products(modified_since=...) of either platform service
GetAllProducts(cat, since) ==
    IF since = None THEN cat
    ELSE SelectSeq(cat, LAMBDA p : HasUpdatedAt(p) /\ p.updated_at >= since)

\* moysklad_to_shopify_product: the identity key is carried over, the id is
\* not (the product does not exist on Shopify yet)
moysklad_to_shopify_product(ms_product) ==
    ShProduct(None, ms_product.code, ms_product.updated_at, ms_product.stock,
              ms_product.price)

\* price_to_moysklad_format: Moysklad keeps prices in minor units
MinorUnits == 100

price_to_moysklad_format(price) == price * MinorUnits

shopify_to_moysklad_product(shopify_product) ==
    MsProduct(None, shopify_product.sku, shopify_product.updated_at,
              shopify_product.inventory_quantity,
              price_to_moysklad_format(shopify_product.price))

\* create_product of a platform service: the platform gives the id and stamps
\* the record with the time of the write
\* ids are platform-specific: Moysklad ids are 100 + n, Shopify ids 200 + n
NewId(plat, cat) == (IF plat = "ms" THEN 100 ELSE 200) + Len(cat) + 1

CreateProduct(plat, cat, data, t) ==
    Append(cat, [data EXCEPT !.id = NewId(plat, cat), !.updated_at = t])

\* update_product of a platform service: the record with the payload's id is
\* replaced and stamped with the time of the write
UpdateProduct(cat, data, t) ==
    [n \in 1..Len(cat) |->
        IF cat[n].id = data.id THEN [data EXCEPT !.updated_at = t] ELSE cat[n]]

\* the quantity available of a Shopify record, 0 where none is kept
Available(p) == IF p.inventory_quantity # <<>> THEN p.inventory_quantity[1] ELSE 0

\* ShopifyClient.update_inventory_level: the mutation inventoryAdjustQuantity
\* with "availableDelta": quantity, which moves the available quantity of the
\* inventory item by `quantity`
update_inventory_level(cat, inventory_item_id, quantity, t) ==
    [n \in 1..Len(cat) |->
        IF cat[n].id = inventory_item_id
        THEN [cat[n] EXCEPT !.inventory_quantity = <<Available(cat[n]) + quantity>>,
                            !.updated_at = t]
        ELSE cat[n]]

\* update_inventory of the Shopify service: the inventory write of the client
\* with the quantity it was given
UpdateInventory(cat, data, t) == update_inventory_level(cat, data.id, data.quantity, t)

\* update_price of a platform service
UpdatePrice(cat, data, t) ==
    [n \in 1..Len(cat) |->
        IF cat[n].id = data.id
        THEN [cat[n] EXCEPT !.price = data.price, !.updated_at = t]
        ELSE cat[n]]

\* the catalog after the remote call `op` with payload `data` at time t
Written(plat, cat, op, data, t) ==
    IF op = "create" THEN CreateProduct(plat, cat, data, t)
    ELSE IF op = "update" THEN UpdateProduct(cat, data, t)
    ELSE IF op = "inventory" THEN UpdateInventory(cat, data, t)
    ELSE UpdatePrice(cat, data, t)

\* ------------------------------------------------------------ catalog index

\* a lookup in which the first record of a key wins
MoyskladByCodeFirstWins(products) ==
    [c \in {products[n].code : n \in {m \in 1..Len(products) : products[m].code # None}} |->
        LET first == CHOOSE n \in 1..Len(products) :
                        /\ products[n].code = c
                        /\ \A m \in 1..Len(products) : products[m].code = c => n <= m
        IN  products[first]]

\* {p.code: p for p in all_moysklad_products if p.code}: a key maps to the
\* last record carrying it, records without a key are left out
moysklad_by_code(products) ==
    [c \in {products[n].code : n \in {m \in 1..Len(products) : products[m].code # None}} |->
        LET last == CHOOSE n \in 1..Len(products) :
                        /\ products[n].code = c
                        /\ \A m \in 1..Len(products) : products[m].code = c => m <= n
        IN  products[last]]

\* {p.sku: p for p in all_shopify_products if p.sku}
shopify_by_sku(products) ==
    [c \in {products[n].sku : n \in {m \in 1..Len(products) : products[m].sku # None}} |->
        LET last == CHOOSE n \in 1..Len(products) :
                        /\ products[n].sku = c
                        /\ \A m \in 1..Len(products) : products[m].sku = c => m <= n
        IN  products[last]]

\* index.get(key)
Get(index, key) == IF key \in DOMAIN index THEN index[key] ELSE NoProduct

\* -------------------------------------------------------- per-record action

\* the platform a worker writes to, and the identity key of its sources
Target(w) == IF w \in {"ms2sh", "inventory", "price_ms2sh"} THEN "sh" ELSE "ms"

Key(w, src) == IF Target(w) = "sh" THEN src.code ELSE src.sku

\* a coroutine object of one of the wrappers, not started yet
Task(w, op, src, tgt, arg) ==
    [op |-> op, w |-> w, src |-> src, tgt |-> tgt, arg |-> arg, st |-> "new",
     attempts |-> 0, calls |-> 0, raised |-> 0, skipped |-> FALSE]

\* the lookup result ignored: every record is created
MakeTaskCreateOnly(w, src, index) == Task(w, "create", src, NoProduct, None)

\* "if shopify_product: update else: create" of one source record
MakeTask(w, src, index) ==
    LET counterpart == Get(index, Key(w, src))
    IN  Task(w, IF counterpart # NoProduct THEN "update" ELSE "create",
             src, counterpart, None)

\* the wrapper coroutines of a batch.  A direction of sync_products has one
\* per record; the inventory sync one per pair; a price direction one per pair
\* whose prices differ ("if shopify_product.price != ms_product.price").
MakeTasks(w, batch, index) ==
    IF w \in Directions
    THEN [k \in 1..Len(batch) |-> MakeTask(w, batch[k], index)]
    ELSE IF w = "inventory"
    THEN [k \in 1..Len(batch) |->
             Task(w, "inventory", batch[k], index[batch[k].code], None)]
    ELSE LET NewPrice(p) == IF w = "price_ms2sh" THEN p.price
                            ELSE price_to_moysklad_format(p.price)
             due == SelectSeq(batch, LAMBDA p : index[Key(w, p)].price # NewPrice(p))
         IN  [k \in 1..Len(due) |->
                 Task(w, "price", due[k], index[Key(w, due[k])], NewPrice(due[k]))]

\* the filter of valid_products
Valid(w, p, index) ==
    IF w \in Directions THEN Key(w, p) # None
    ELSE IF w = "inventory" THEN p.code # None /\ p.code \in DOMAIN index
    ELSE Key(w, p) # None /\ p.price # None /\ Key(w, p) \in DOMAIN index

\* the skip test with the comparison turned round
SkipUpdateReversed(src, tgt) ==
    /\ HasUpdatedAt(src)
    /\ HasUpdatedAt(tgt)
    /\ src.updated_at >= tgt.updated_at

\* the skip test with "<" for "<="
SkipUpdateStrict(src, tgt) ==
    /\ HasUpdatedAt(src)
    /\ HasUpdatedAt(tgt)
    /\ src.updated_at < tgt.updated_at

\* "if hasattr(..) and hasattr(..): if src.updated_at <= tgt.updated_at: return"
SkipUpdate(src, tgt) ==
    /\ HasUpdatedAt(src)
    /\ HasUpdatedAt(tgt)
    /\ src.updated_at <= tgt.updated_at

\* "moysklad_stock = ms_product.stock if ms_product.stock is not None else 0"
MoyskladStock(ms_product) ==
    IF ms_product.stock # <<>> THEN ms_product.stock[1] ELSE 0

\* the inventory wrapper without its test
SkipInventoryNever(ms_product, shopify_product) == FALSE

\* "if current_stock is not None and current_stock == moysklad_stock: return"
SkipInventory(ms_product, shopify_product) ==
    /\ shopify_product.inventory_quantity # <<>>
    /\ shopify_product.inventory_quantity[1] = MoyskladStock(ms_product)

\* the inventory call naming the Moysklad record in the place of the Shopify
\* record it was paired with
PayloadOfSource(t) ==
    IF t.op = "inventory"
    THEN [id |-> t.src.id, quantity |-> MoyskladStock(t.src)]
    ELSE IF t.op = "price"
    THEN [id |-> t.tgt.id, price |-> t.arg]
    ELSE LET data == IF t.w = "ms2sh" THEN moysklad_to_shopify_product(t.src)
                                      ELSE shopify_to_moysklad_product(t.src)
         IN  IF t.op = "update" THEN [data EXCEPT !.id = t.tgt.id] ELSE data

\* the update payload without "updated_data.id = shopify_product.id"
PayloadWithoutTargetId(t) ==
    IF t.op = "inventory"
    THEN [id |-> t.tgt.id, quantity |-> MoyskladStock(t.src)]
    ELSE IF t.op = "price"
    THEN [id |-> t.tgt.id, price |-> t.arg]
    ELSE IF t.w = "ms2sh" THEN moysklad_to_shopify_product(t.src)
                          ELSE shopify_to_moysklad_product(t.src)

\* what the wrapper sends.  create: the converted source; update: the
\* converted source with the id of the existing counterpart; inventory: the
\* Moysklad stock for the Shopify product; price: the price for the product
\* the caller named.
Payload(t) ==
    IF t.op = "inventory"
    THEN [id |-> t.tgt.id, quantity |-> MoyskladStock(t.src)]
    ELSE IF t.op = "price"
    THEN [id |-> t.tgt.id, price |-> t.arg]
    ELSE LET data == IF t.w = "ms2sh" THEN moysklad_to_shopify_product(t.src)
                                      ELSE shopify_to_moysklad_product(t.src)
         IN  IF t.op = "update" THEN [data EXCEPT !.id = t.tgt.id] ELSE data

\* the wrapper returns before any remote call
Skips(t) ==
    \/ t.op = "update" /\ SkipUpdate(t.src, t.tgt)
    \/ t.op = "inventory" /\ SkipInventory(t.src, t.tgt)

\* One attempt of a wrapper, up to its await of the remote call: an update that
\* is not newer and an inventory that is not different return at once,
\* anything else sends the remote call.
Attempt(t) ==
    IF Skips(t)
    THEN [t EXCEPT !.st = "ok", !.attempts = @ + 1, !.skipped = TRUE]
    ELSE [t EXCEPT !.st = "inflight", !.attempts = @ + 1, !.calls = @ + 1]

\* a stop condition that is off by one
ShouldRetryOnceMore(t) == t.attempts <= StopAfterAttempt

\* tenacity: retry unless stop_after_attempt(3) says stop
ShouldRetry(t) == t.attempts < StopAfterAttempt

\* the remote call of an in-flight attempt raised
Raised(t) ==
    LET r == [t EXCEPT !.raised = @ + 1]
    IN  IF ShouldRetry(r) THEN Attempt(r) ELSE [r EXCEPT !.st = "failed"]

\* the remote call of an in-flight attempt returned
Returned(t) == [t EXCEPT !.st = "ok"]

\* The wrapper from an in-flight attempt on, when the remote call raises
\* `fails` times in a row before it returns: every raise goes through
\* tenacity, which re-runs the wrapper or gives up.
RECURSIVE Retrying(_, _)
Retrying(t, fails) ==
    IF t.st # "inflight" THEN t
    ELSE IF fails = 0 THEN Returned(t)
    ELSE Retrying(Raised(t), fails - 1)

\* the raises of the remote call that the wrapper got to see
RECURSIVE Raises(_, _)
Raises(t, fails) ==
    IF t.st # "inflight" \/ fails = 0 THEN 0
    ELSE 1 + Raises(Raised(t), fails - 1)

IsSettled(t) == t.st \in {"ok", "failed"}

\* ---------------------------------------------------------------- scheduler

\* tasks[i:], the slice without its upper end
ChunkAll(ts, j) == {k \in 1..Len(ts) : j < k}

\* tasks[i:i+MAX_CONCURRENT_TASKS], as the indexes of the slice
Chunk(ts, j) == {k \in 1..Len(ts) : j < k /\ k <= j + MAX_CONCURRENT_TASKS}

\* asyncio.wait(children, return_when=FIRST_COMPLETED) in the place of gather
GatherFirstCompleted(return_exceptions, children) ==
    IF children = {} \/ children \cap {"ok", "failed"} # {} THEN "return"
    ELSE "pending"

\* asyncio.gather(*children): "raise" as soon as a child has raised unless
\* return_exceptions is set, "return" once every child is done
Gather(return_exceptions, children) ==
    IF ~return_exceptions /\ "failed" \in children THEN "raise"
    ELSE IF children \subseteq {"ok", "failed"} THEN "return"
    ELSE "pending"

\* gather called without return_exceptions
ReturnExceptionsUnset == FALSE

\* the return_exceptions argument of the scheduler's gather
SchedulerReturnExceptions == TRUE

\* the return_exceptions argument (default) of sync_products' gather
SyncReturnExceptions == FALSE

\* the results the scheduler keeps of a chunk: a raised task is logged and
\* left out
KeptResults(ts, j) ==
    LET F[k \in 0..Len(ts)] ==
            IF k = 0 THEN <<>>
            ELSE IF k \in Chunk(ts, j) /\ ts[k].st # "failed"
                 THEN Append(F[k - 1], Key(ts[k].w, ts[k].src))
                 ELSE F[k - 1]
    IN  F[Len(ts)]

\* _execute_tasks_with_limited_concurrency at the head of its loop: the next
\* chunk is gathered (each task runs up to its first await), or the results
\* are returned and the direction sleeps
ExecChunks(wr) ==
    IF wr.j < Len(wr.tasks)
    THEN [wr EXCEPT !.pc = "gather",
                    !.tasks = [k \in 1..Len(@) |->
                                 IF k \in Chunk(@, wr.j) THEN Attempt(@[k]) ELSE @[k]]]
    ELSE [wr EXCEPT !.pc = "sleep", !.returned = @ + Len(wr.results)]

\* what the scheduler's gather of the current chunk has to say
ChunkStatus(wr) ==
    Gather(SchedulerReturnExceptions,
           {(IF IsSettled(wr.tasks[k]) THEN wr.tasks[k].st ELSE "running") :
               k \in Chunk(wr.tasks, wr.j)})

\* the gather of the current chunk is over
AfterGather(wr) ==
    IF ChunkStatus(wr) = "raise"
    THEN [wr EXCEPT !.pc = "raised"]
    ELSE ExecChunks([wr EXCEPT !.results = @ \o KeptResults(wr.tasks, wr.j),
                               !.j = @ + MAX_CONCURRENT_TASKS])

\* a direction at the head of "for i in range(0, len(valid_products), BATCH_SIZE)"
RunBatches(w, wr, index) ==
    IF wr.i < Len(wr.valid_products)
    THEN LET batch == SubSeq(wr.valid_products, wr.i + 1,
                             Min(wr.i + BATCH_SIZE, Len(wr.valid_products)))
         IN  ExecChunks([wr EXCEPT
                 !.tasks = MakeTasks(w, batch, index),
                 !.j = 0,
                 !.results = <<>>,
                 !.handed = @ + Len(MakeTasks(w, batch, index))])
    ELSE [wr EXCEPT !.pc = "done"]

\* a direction task that has not run yet
NewWorker(valid) ==
    [pc |-> "new", valid_products |-> valid, i |-> 0, tasks |-> <<>>, j |-> 0,
     results |-> <<>>, returned |-> 0, handed |-> 0]

\* _sync_moysklad_to_shopify / _sync_shopify_to_moysklad up to the first await
StartDirection(w, products, index) ==
    RunBatches(w, NewWorker(SelectSeq(products, LAMBDA p : Valid(w, p, index))), index)

IndexOf(w) ==
    IF w = "ms2sh" THEN shopify_by_sku(all_shopify_products)
    ELSE IF w = "sh2ms" THEN moysklad_by_code(all_moysklad_products)
    ELSE IF w = "price_sh2ms" THEN moysklad_by_code(moysklad_products)
    ELSE shopify_by_sku(shopify_products)

Quiescent(wr) ==
    /\ wr.pc \in {"new", "done", "raised"}
    /\ \A k \in 1..Len(wr.tasks) : wr.tasks[k].st # "inflight"

\* --------------------------------------------------------------- event logs

CallEvent(t) ==
    [w |-> t.w, op |-> t.op, key |-> Key(t.w, t.src),
     src |-> t.src.id, id |-> Payload(t).id]

SettleEvent(t) ==
    [w |-> t.w, op |-> t.op, key |-> Key(t.w, t.src),
     src |-> t.src.id, stamp |-> t.src.updated_at,
     res |-> IF t.st = "failed" THEN "failed"
             ELSE IF t.skipped THEN "skipped" ELSE "ok"]

\* the calls sent and the actions settled when a worker starts a chunk
ChunkCalls(wr) ==
    IF wr.pc # "gather" THEN {}
    ELSE {CallEvent(wr.tasks[k]) :
             k \in {n \in Chunk(wr.tasks, wr.j) : wr.tasks[n].st = "inflight"}}

ChunkSettles(wr) ==
    IF wr.pc # "gather" THEN {}
    ELSE {SettleEvent(wr.tasks[k]) :
             k \in {n \in Chunk(wr.tasks, wr.j) : IsSettled(wr.tasks[n])}}

\* --------------------------------------------------------------------- Init

Keys == 1..MaxKeys

InitStamps == {None, OldStamp, RecentStamp}

\* a catalog holding the keys of `present` (keys of 1..n), in key order,
\* with the updated_at, stock and price that `stamp`, `qty` and `price` give
CatalogOf(plat, n, present, stamp, qty, price) ==
    LET held == present \cap (1..n)
        KeyAt(p) == CHOOSE k \in held : Cardinality({x \in held : x <= k}) = p
    IN  [p \in 1..Cardinality(held) |->
            IF plat = "ms"
            THEN MsProduct(100 + p, KeyAt(p), stamp[KeyAt(p)], qty[KeyAt(p)],
                           price[KeyAt(p)])
            ELSE ShProduct(200 + p, KeyAt(p), stamp[KeyAt(p)], qty[KeyAt(p)],
                           price[KeyAt(p)])]

InitCatalogs(plat) ==
    {CatalogOf(plat, MaxKeys, present, stamp, [k \in Keys |-> <<>>],
               [k \in Keys |-> None]) :
        present \in SUBSET Keys, stamp \in [Keys -> InitStamps]}

\* no sync_products call before this one
NoRun == [full |-> FALSE, outcome |-> "none", started |-> None, failed |-> {}]

\* no sync_products call beside the one pc follows
NoCall == [pc |-> "idle", full_sync |-> FALSE, start_time |-> None,
           modified_since |-> None, calls |-> 0]

\* no client request has been made
NoRequest == [client |-> "none", pc |-> "idle", retry_count |-> 0, log |-> <<>>,
              slept |-> 0, result |-> "none"]

\* main() has not been run
NoEntry == [pc |-> "idle", run |-> 0, shopify_products |-> <<>>, i |-> 0,
            posted |-> <<>>]

\* neither run_complete_sync nor run_incremental_sync has been called
NoJob == [kind |-> "none", st |-> "idle", phases |-> <<>>, start_time |-> None,
          watermark |-> None]

\* ProductSyncService.__init__, and the world around it
Init ==
    /\ now = StartClock
    /\ tick = 1
    /\ faults = MaxFaults
    /\ sys_faults = MaxSysFaults
    /\ flaky = 1..MaxFlaky
    /\ touches = <<>>
    /\ second = NoCall
    /\ job = NoJob
    /\ req = NoRequest
    /\ entry = NoEntry
    /\ config = [price_sync_direction |-> "moysklad_to_shopify"]
    /\ msCat \in InitCatalogs("ms")
    /\ shCat \in InitCatalogs("sh")
    /\ last_sync_time = None
    /\ pc = "idle"
    /\ full_sync = FALSE
    /\ start_time = None
    /\ modified_since = None
    /\ moysklad_products = <<>>
    /\ shopify_products = <<>>
    /\ all_moysklad_products = <<>>
    /\ all_shopify_products = <<>>
    /\ dir = [w \in Workers |-> NewWorker(<<>>)]
    /\ outcome = "none"
    /\ runs = 0
    /\ prev_sync_time = None
    /\ prev = NoRun
    /\ issued = {}
    /\ settled = {}

\* ------------------------------------------------------------ sync_products

\* the watermark tested before the mode
ModifiedSinceWatermarkFirst(full, watermark, t) ==
    IF watermark # None THEN watermark
    ELSE IF ~full THEN t - LookbackHours ELSE None

\* "if not full_sync and self.last_sync_time: ... else: ..."
ModifiedSince(full, watermark, t) ==
    IF ~full /\ watermark # None THEN watermark
    ELSE IF ~full THEN t - LookbackHours ELSE None

\* A public operation runs up to its first await: it takes its start
\* timestamp and its modification cutoff.  Calls are serialized: none starts
\* while a task of an earlier call still runs.
OpBegin(full, since, first) ==
    /\ pc = "idle"
    /\ \A w \in Workers : Quiescent(dir[w])
    /\ full_sync' = full
    /\ start_time' = now
    /\ modified_since' = since
    /\ now' = now + 1
    /\ pc' = first
    /\ outcome' = "running"
    /\ runs' = runs + 1
    /\ prev_sync_time' = last_sync_time
    /\ prev' = [full |-> full_sync, outcome |-> outcome, started |-> start_time,
                failed |-> {<<e.w, e.key, e.stamp>> :
                               e \in {x \in settled : x.res = "failed"}}]
    /\ issued' = {}
    /\ settled' = {}
    /\ dir' = [w \in Workers |-> NewWorker(<<>>)]
    /\ moysklad_products' = <<>>
    /\ shopify_products' = <<>>
    /\ all_moysklad_products' = <<>>
    /\ all_shopify_products' = <<>>
    /\ UNCHANGED <<tick, faults, sys_faults, config, flaky, req, entry, touches, second, msCat, shCat,
                   last_sync_time>>

\* a public operation is called by the user of the service
OpStart(full, since, first) ==
    /\ runs < MaxRuns
    /\ OpBegin(full, since, first)
    /\ UNCHANGED job

\* sync_products(full_sync) is called
SyncStart(full) == OpStart(full, ModifiedSince(full, last_sync_time, now), "fetch_ms")

\* "await asyncio.gather(dir1, dir2)": both directions run up to their first await
StartGather(all_ms, all_sh, ms, sh) ==
    /\ dir' = [w \in Workers |->
                 IF w = "ms2sh" THEN StartDirection(w, ms, shopify_by_sku(all_sh))
                 ELSE IF w = "sh2ms" THEN StartDirection(w, sh, moysklad_by_code(all_ms))
                 ELSE dir[w]]
    /\ pc' = "gather"
    /\ issued' = issued \cup UNION {ChunkCalls(dir'[w]) : w \in Workers}
    /\ settled' = settled \cup UNION {ChunkSettles(dir'[w]) : w \in Workers}

\* moysklad_service.get_all_products(modified_since=modified_since) returns
FetchMoysklad ==
    /\ pc = "fetch_ms"
    /\ moysklad_products' = GetAllProducts(msCat, modified_since)
    /\ pc' = "fetch_sh"
    /\ UNCHANGED <<now, tick, faults, sys_faults, config, flaky, job, req, entry, touches, second, msCat, shCat, last_sync_time, full_sync,
                   start_time, modified_since, shopify_products,
                   all_moysklad_products, all_shopify_products, dir, outcome,
                   runs, prev_sync_time, prev, issued, settled>>

\* shopify_service.get_all_products(modified_since=modified_since) returns
FetchShopify ==
    /\ pc = "fetch_sh"
    /\ shopify_products' = GetAllProducts(shCat, modified_since)
    /\ IF ~full_sync /\ modified_since # None
       THEN /\ pc' = "fetch_all_ms"
            /\ UNCHANGED <<all_moysklad_products, all_shopify_products, dir,
                           issued, settled>>
       ELSE /\ all_moysklad_products' = moysklad_products
            /\ all_shopify_products' = shopify_products'
            /\ StartGather(moysklad_products, shopify_products',
                           moysklad_products, shopify_products')
    /\ UNCHANGED <<now, tick, faults, sys_faults, config, flaky, job, req, entry, touches, second, msCat, shCat, last_sync_time, full_sync,
                   start_time, modified_since, moysklad_products, outcome, runs,
                   prev_sync_time, prev>>

\* the lookup fetch with the cutoff of the filtered fetch
FetchAllMoyskladFiltered ==
    /\ pc = "fetch_all_ms"
    /\ all_moysklad_products' = GetAllProducts(msCat, modified_since)
    /\ pc' = "fetch_all_sh"
    /\ UNCHANGED <<now, tick, faults, sys_faults, config, flaky, job, req, entry, touches, second, msCat, shCat, last_sync_time, full_sync,
                   start_time, modified_since, moysklad_products, shopify_products,
                   all_shopify_products, dir, outcome, runs, prev_sync_time, prev,
                   issued, settled>>

\* moysklad_service.get_all_products() for the lookup returns
FetchAllMoysklad ==
    /\ pc = "fetch_all_ms"
    /\ all_moysklad_products' = GetAllProducts(msCat, None)
    /\ pc' = "fetch_all_sh"
    /\ UNCHANGED <<now, tick, faults, sys_faults, config, flaky, job, req, entry, touches, second, msCat, shCat, last_sync_time, full_sync,
                   start_time, modified_since, moysklad_products, shopify_products,
                   all_shopify_products, dir, outcome, runs, prev_sync_time, prev,
                   issued, settled>>

\* shopify_service.get_all_products() for the lookup returns
FetchAllShopify ==
    /\ pc = "fetch_all_sh"
    /\ all_shopify_products' = GetAllProducts(shCat, None)
    /\ StartGather(all_moysklad_products, all_shopify_products',
                   moysklad_products, shopify_products)
    /\ UNCHANGED <<now, tick, faults, sys_faults, config, flaky, job, req, entry, touches, second, msCat, shCat, last_sync_time, full_sync,
                   start_time, modified_since, moysklad_products, shopify_products,
                   all_moysklad_products, outcome, runs, prev_sync_time, prev>>

\* where an operation awaits a get_all_products call
FetchPoints ==
    {"fetch_ms", "fetch_sh", "fetch_all_ms", "fetch_all_sh",
     "inv_fetch_ms", "inv_fetch_sh", "pr_fetch_ms", "pr_fetch_sh"}

\* a fetch that raises after the watermark was written
FetchRaiseMovesWatermark ==
    /\ pc \in {"fetch_ms", "fetch_sh", "fetch_all_ms", "fetch_all_sh"}
    /\ sys_faults > 0
    /\ sys_faults' = sys_faults - 1
    /\ pc' = "idle"
    /\ outcome' = "fetch_raised"
    /\ last_sync_time' = start_time
    /\ UNCHANGED <<now, tick, faults, config, flaky, job, req, entry, touches, second, msCat, shCat, full_sync, start_time,
                   modified_since, moysklad_products, shopify_products,
                   all_moysklad_products, all_shopify_products, dir, runs,
                   prev_sync_time, prev, issued, settled>>

\* a catalog fetch raises: "except ...: raise"
\* a raise of the operation itself after its first batch was handed over
FetchRaiseLate ==
    /\ pc \in {"gather", "inv_run", "pr_run"}
    /\ sys_faults > 0
    /\ sys_faults' = sys_faults - 1
    /\ pc' = "idle"
    /\ outcome' = "fetch_raised"
    /\ UNCHANGED <<now, tick, faults, config, flaky, job, req, entry, touches, second, msCat, shCat, last_sync_time, full_sync, start_time,
                   modified_since, moysklad_products, shopify_products,
                   all_moysklad_products, all_shopify_products, dir, runs,
                   prev_sync_time, prev, issued, settled>>

\* a catalog fetch of the running operation raises: the operation logs and
\* re-raises
FetchRaise ==
    /\ pc \in FetchPoints
    /\ sys_faults > 0
    /\ sys_faults' = sys_faults - 1
    /\ pc' = "idle"
    /\ outcome' = "fetch_raised"
    /\ UNCHANGED <<now, tick, faults, config, flaky, job, req, entry, touches, second, msCat, shCat, last_sync_time, full_sync, start_time,
                   modified_since, moysklad_products, shopify_products,
                   all_moysklad_products, all_shopify_products, dir, runs,
                   prev_sync_time, prev, issued, settled>>

\* what the gather of the two directions sees of a direction task
ChildStatus(wr) ==
    IF wr.pc = "done" THEN "ok" ELSE IF wr.pc = "raised" THEN "failed" ELSE "running"

\* the cutoff of the call stored as the watermark
WatermarkFromCutoff(watermark, started) == modified_since

\* the watermark taken from the clock when the gather has returned
WatermarkAtEnd(watermark, started) == now

\* the watermark after the gather of the directions returned
WatermarkAfterRun(watermark, started) == started

\* the gather of the two directions is over: "self.last_sync_time = start_time",
\* or the exception of a direction goes to the caller
SyncJoin ==
    /\ pc = "gather"
    /\ LET g == Gather(SyncReturnExceptions, {ChildStatus(dir[w]) : w \in Directions})
       IN  /\ g # "pending"
           /\ IF g = "return"
              THEN /\ last_sync_time' = WatermarkAfterRun(last_sync_time, start_time)
                   /\ outcome' = "returned"
              ELSE /\ outcome' = "direction_raised"
                   /\ UNCHANGED last_sync_time
    /\ pc' = "idle"
    /\ UNCHANGED <<now, tick, faults, sys_faults, config, flaky, job, req, entry, touches, second, msCat, shCat, full_sync, start_time,
                   modified_since, moysklad_products, shopify_products,
                   all_moysklad_products, all_shopify_products, dir, runs,
                   prev_sync_time, prev, issued, settled>>

\* -------------------------------------------------------- direction tasks

\* The remote create/update call of task k of direction w is over, after
\* `fails` raises (each followed by tenacity's wait and a new attempt): the
\* target platform has applied the write, or the task ends with the error.
\* Attempts that raise have no effect on the platforms, so the retries of a
\* task are one step.
RemoteDone(w, k, fails) ==
    /\ k \in 1..Len(dir[w].tasks)
    /\ dir[w].tasks[k].st = "inflight"
    /\ fails > 0 => Key(w, dir[w].tasks[k].src) \in flaky
    /\ fails <= faults
    /\ LET t0 == dir[w].tasks[k]
           t == Retrying(t0, fails)
           cat == IF Target(w) = "sh" THEN shCat ELSE msCat
           written == IF t.st = "failed" THEN cat
                      ELSE Written(Target(w), cat, t.op, Payload(t), now)
       IN  /\ Raises(t0, fails) = fails
           /\ faults' = faults - fails
           /\ IF Target(w) = "sh"
              THEN shCat' = written /\ UNCHANGED msCat
              ELSE msCat' = written /\ UNCHANGED shCat
           /\ now' = IF t.st = "failed" THEN now ELSE now + tick
           /\ dir' = [dir EXCEPT ![w].tasks[k] = t]
           /\ issued' = issued \cup {CallEvent(t)}
           /\ settled' = settled \cup {SettleEvent(t)}
    /\ UNCHANGED <<tick, sys_faults, config, flaky, job, req, entry, touches, second, last_sync_time, pc, full_sync, start_time,
                   modified_since, moysklad_products, shopify_products,
                   all_moysklad_products, all_shopify_products, outcome, runs,
                   prev_sync_time, prev>>

\* the gather of the current chunk of direction w is over: the scheduler keeps
\* the results and goes on with the next chunk, or returns
ChunkJoin(w) ==
    /\ dir[w].pc = "gather"
    /\ ChunkStatus(dir[w]) # "pending"
    /\ dir' = [dir EXCEPT ![w] = AfterGather(@)]
    /\ issued' = issued \cup ChunkCalls(dir'[w])
    /\ settled' = settled \cup ChunkSettles(dir'[w])
    /\ UNCHANGED <<now, tick, faults, sys_faults, config, flaky, job, req, entry, touches, second, msCat, shCat, last_sync_time, pc, full_sync,
                   start_time, modified_since, moysklad_products, shopify_products,
                   all_moysklad_products, all_shopify_products, outcome, runs,
                   prev_sync_time, prev>>

\* "await asyncio.sleep(0.5)" of direction w is over: the next batch, or return
Pace(w) ==
    /\ dir[w].pc = "sleep"
    /\ dir' = [dir EXCEPT ![w] = RunBatches(w, [@ EXCEPT !.i = @ + BATCH_SIZE],
                                            IndexOf(w))]
    /\ issued' = issued \cup ChunkCalls(dir'[w])
    /\ settled' = settled \cup ChunkSettles(dir'[w])
    /\ UNCHANGED <<now, tick, faults, sys_faults, config, flaky, job, req, entry, touches, second, msCat, shCat, last_sync_time, pc, full_sync,
                   start_time, modified_since, moysklad_products, shopify_products,
                   all_moysklad_products, all_shopify_products, outcome, runs,
                   prev_sync_time, prev>>

\* a systemic error: the code of direction w itself raises when it resumes
DirRaise(w) ==
    /\ \/ dir[w].pc = "sleep"
       \/ dir[w].pc = "gather" /\ ChunkStatus(dir[w]) = "return"
    /\ sys_faults > 0
    /\ sys_faults' = sys_faults - 1
    /\ dir' = [dir EXCEPT ![w].pc = "raised"]
    /\ UNCHANGED <<now, tick, faults, config, flaky, job, req, entry, touches, second, msCat, shCat, last_sync_time, pc, full_sync,
                   start_time, modified_since, moysklad_products, shopify_products,
                   all_moysklad_products, all_shopify_products, outcome, runs,
                   prev_sync_time, prev, issued, settled>>

\* ------------------------------------------------------------ specification

Next ==
    \/ \E full \in BOOLEAN : SyncStart(full)
    \/ FetchMoysklad
    \/ FetchShopify
    \/ FetchAllMoysklad
    \/ FetchAllShopify
    \/ FetchRaise
    \/ SyncJoin
    \/ \E w \in Directions : \E k \in DOMAIN dir[w].tasks : \E fails \in 0..StopAfterAttempt :
           RemoteDone(w, k, fails)
    \/ \E w \in Directions : ChunkJoin(w)
    \/ \E w \in Directions : Pace(w)
    \/ \E w \in Directions : DirRaise(w)

Spec == Init /\ [][Next]_vars

\* ---------------------------------------------------------------------------
\* One full sync_products call over a large Moysklad catalog: the batches and
\* chunks of a direction.  Shopify lacks the first record (a create), holds
\* the third with the same stamp (a skip) and the others with an older stamp
\* (updates).  The writes of the call fall into one reading of the clock.

\* the largest catalog
MaxActions == 51

SchedSizes == {0, 1, MAX_CONCURRENT_TASKS + 1, MaxActions}

\* the records whose remote call may raise: the first of the first chunk, the
\* first of the second chunk and the last record
FlakySpots(n) == {1, MAX_CONCURRENT_TASKS + 1, n} \cap (1..n)

SchedInit ==
    /\ now = StartClock
    /\ tick = 0
    /\ faults = StopAfterAttempt
    /\ sys_faults = 0
    /\ config = [price_sync_direction |-> "moysklad_to_shopify"]
    /\ \E n \in SchedSizes :
          /\ msCat = CatalogOf("ms", n, 1..n, [k \in 1..n |-> RecentStamp],
                                [k \in 1..n |-> <<>>], [k \in 1..n |-> None])
          /\ shCat = CatalogOf("sh", n, 2..n,
                                [k \in 1..n |-> IF k = 3 THEN RecentStamp ELSE OldStamp],
                                [k \in 1..n |-> <<>>], [k \in 1..n |-> None])
          /\ flaky = FlakySpots(n)
    /\ touches = <<>>
    /\ second = NoCall
    /\ job = NoJob
    /\ req = NoRequest
    /\ entry = NoEntry
    /\ last_sync_time = None
    /\ pc = "idle"
    /\ full_sync = FALSE
    /\ start_time = None
    /\ modified_since = None
    /\ moysklad_products = <<>>
    /\ shopify_products = <<>>
    /\ all_moysklad_products = <<>>
    /\ all_shopify_products = <<>>
    /\ dir = [w \in Workers |-> NewWorker(<<>>)]
    /\ outcome = "none"
    /\ runs = MaxRuns - 1
    /\ prev_sync_time = None
    /\ prev = NoRun
    /\ issued = {}
    /\ settled = {}

SchedNext ==
    \/ SyncStart(TRUE)
    \/ FetchMoysklad
    \/ FetchShopify
    \/ SyncJoin
    \/ \E w \in Directions : \E k \in DOMAIN dir[w].tasks : \E fails \in 0..StopAfterAttempt :
           RemoteDone(w, k, fails)
    \/ \E w \in Directions : ChunkJoin(w)
    \/ \E w \in Directions : Pace(w)

SpecSched == SchedInit /\ [][SchedNext]_vars

\* ---------------------------------------------------------------------------
\* One full sync_products call over catalogs that have no product in common:
\* each direction has creates to send while the other runs.

\* the products each platform holds alone
MaxAlone == 4

BothInit ==
    /\ now = StartClock
    /\ tick = 0
    /\ faults = 0
    /\ sys_faults = 0
    /\ config = [price_sync_direction |-> "moysklad_to_shopify"]
    /\ flaky = {}
    /\ touches = <<>>
    /\ second = NoCall
    /\ job = NoJob
    /\ req = NoRequest
    /\ entry = NoEntry
    /\ msCat = CatalogOf("ms", 2 * MaxAlone, 1..MaxAlone,
                         [k \in 1..2 * MaxAlone |-> RecentStamp],
                         [k \in 1..2 * MaxAlone |-> <<>>],
                         [k \in 1..2 * MaxAlone |-> None])
    /\ shCat = CatalogOf("sh", 2 * MaxAlone, (MaxAlone + 1)..(2 * MaxAlone),
                         [k \in 1..2 * MaxAlone |-> RecentStamp],
                         [k \in 1..2 * MaxAlone |-> <<>>],
                         [k \in 1..2 * MaxAlone |-> None])
    /\ last_sync_time = None
    /\ pc = "idle"
    /\ full_sync = FALSE
    /\ start_time = None
    /\ modified_since = None
    /\ moysklad_products = <<>>
    /\ shopify_products = <<>>
    /\ all_moysklad_products = <<>>
    /\ all_shopify_products = <<>>
    /\ dir = [w \in Workers |-> NewWorker(<<>>)]
    /\ outcome = "none"
    /\ runs = MaxRuns - 1
    /\ prev_sync_time = None
    /\ prev = NoRun
    /\ issued = {}
    /\ settled = {}

SpecBoth == BothInit /\ [][SchedNext]_vars

\* ---------------------------------------------------------------------------
\* sync_product_inventory and sync_product_prices

\* "modified_since = None; if not full_sync and self.last_sync_time: ..."
Cutoff(full, watermark) == IF ~full /\ watermark # None THEN watermark ELSE None

\* worker w starts on `products` with the lookup `index`
StartWorker(w, products, index) ==
    /\ dir' = [dir EXCEPT ![w] = StartDirection(w, products, index)]
    /\ issued' = issued \cup ChunkCalls(dir'[w])
    /\ settled' = settled \cup ChunkSettles(dir'[w])

\* sync_product_inventory(full_sync) is called
InventoryStart(full) == OpStart(full, Cutoff(full, last_sync_time), "inv_fetch_ms")

\* moysklad_service.get_all_products(with_stock=True, modified_since=...) returns
InventoryFetchMoysklad ==
    /\ pc = "inv_fetch_ms"
    /\ moysklad_products' = GetAllProducts(msCat, modified_since)
    /\ pc' = "inv_fetch_sh"
    /\ UNCHANGED <<now, tick, faults, sys_faults, config, flaky, job, req, entry, touches, second, msCat, shCat,
                   last_sync_time, full_sync, start_time, modified_since,
                   shopify_products, all_moysklad_products, all_shopify_products,
                   dir, outcome, runs, prev_sync_time, prev, issued, settled>>

\* shopify_service.get_all_products(with_inventory=True) returns: the pairs
\* are formed and the first batch is handed to the scheduler
InventoryFetchShopify ==
    /\ pc = "inv_fetch_sh"
    /\ shopify_products' = GetAllProducts(shCat, None)
    /\ StartWorker("inventory", moysklad_products, shopify_by_sku(shopify_products'))
    /\ pc' = "inv_run"
    /\ UNCHANGED <<now, tick, faults, sys_faults, config, flaky, job, req, entry, touches, second, msCat, shCat,
                   last_sync_time, full_sync, start_time, modified_since,
                   moysklad_products, all_moysklad_products, all_shopify_products,
                   outcome, runs, prev_sync_time, prev>>

\* sync_product_prices(full_sync) is called
PricesStart(full) == OpStart(full, Cutoff(full, last_sync_time), "pr_fetch_ms")

\* moysklad_service.get_all_products(modified_since=...) returns
PricesFetchMoysklad ==
    /\ pc = "pr_fetch_ms"
    /\ moysklad_products' = GetAllProducts(msCat, modified_since)
    /\ pc' = "pr_fetch_sh"
    /\ UNCHANGED <<now, tick, faults, sys_faults, config, flaky, job, req, entry, touches, second, msCat, shCat,
                   last_sync_time, full_sync, start_time, modified_since,
                   shopify_products, all_moysklad_products, all_shopify_products,
                   dir, outcome, runs, prev_sync_time, prev, issued, settled>>

\* the two settings taken for one another
PriceWorkerReversed ==
    IF config.price_sync_direction = "moysklad_to_shopify" THEN "price_sh2ms"
    ELSE IF config.price_sync_direction = "shopify_to_moysklad" THEN "price_ms2sh"
    ELSE "none"

\* a value that is not known taken for the default direction
PriceWorkerWithDefault ==
    IF config.price_sync_direction = "shopify_to_moysklad" THEN "price_sh2ms"
    ELSE "price_ms2sh"

\* the worker of the configured price direction
PriceWorker ==
    IF config.price_sync_direction = "moysklad_to_shopify" THEN "price_ms2sh"
    ELSE IF config.price_sync_direction = "shopify_to_moysklad" THEN "price_sh2ms"
    ELSE "none"

\* shopify_service.get_all_products(modified_since=...) returns: the configured
\* direction starts, or the direction is not valid and the call returns
PricesFetchShopify ==
    /\ pc = "pr_fetch_sh"
    /\ shopify_products' = GetAllProducts(shCat, modified_since)
    /\ IF PriceWorker = "price_ms2sh"
       THEN /\ StartWorker("price_ms2sh", moysklad_products,
                           shopify_by_sku(shopify_products'))
            /\ pc' = "pr_run"
            /\ UNCHANGED outcome
       ELSE IF PriceWorker = "price_sh2ms"
       THEN /\ StartWorker("price_sh2ms", shopify_products',
                           moysklad_by_code(moysklad_products))
            /\ pc' = "pr_run"
            /\ UNCHANGED outcome
       ELSE /\ pc' = "idle"
            /\ outcome' = "returned"
            /\ UNCHANGED <<dir, issued, settled>>
    /\ UNCHANGED <<now, tick, faults, sys_faults, config, flaky, job, req, entry, touches, second, msCat, shCat,
                   last_sync_time, full_sync, start_time, modified_since,
                   moysklad_products, all_moysklad_products, all_shopify_products,
                   runs, prev_sync_time, prev>>

\* the inventory sync and the price sync storing their start time as the
\* watermark when they return
OpReturnMovesWatermark ==
    /\ \/ pc = "inv_run" /\ dir["inventory"].pc = "done"
       \/ pc = "pr_run" /\ dir[PriceWorker].pc = "done"
    /\ pc' = "idle"
    /\ outcome' = "returned"
    /\ last_sync_time' = start_time
    /\ UNCHANGED <<now, tick, faults, sys_faults, config, flaky, job, req, entry, touches, second, msCat, shCat,
                   full_sync, start_time, modified_since,
                   moysklad_products, shopify_products, all_moysklad_products,
                   all_shopify_products, dir, runs, prev_sync_time, prev, issued,
                   settled>>

\* the batches of the inventory sync or of the price direction are through:
\* the operation returns
OpReturn ==
    /\ \/ pc = "inv_run" /\ dir["inventory"].pc = "done"
       \/ pc = "pr_run" /\ dir[PriceWorker].pc = "done"
    /\ pc' = "idle"
    /\ outcome' = "returned"
    /\ UNCHANGED <<now, tick, faults, sys_faults, config, flaky, job, req, entry, touches, second, msCat, shCat,
                   last_sync_time, full_sync, start_time, modified_since,
                   moysklad_products, shopify_products, all_moysklad_products,
                   all_shopify_products, dir, runs, prev_sync_time, prev, issued,
                   settled>>

\* ---------------------------------------------------------------------------
\* The three public operations, called one after the other in any order, on
\* catalogs whose records carry stock and price: every wrapper gets to run.

\* the identity keys of the catalogs
RetryKeys == 2
\* exceptions remote mutation calls raise per behaviour
MaxRetryFaults == 5

RetryStock(plat) ==
    [k \in 1..RetryKeys |-> IF k = 1 THEN <<>>
                            ELSE IF k = 3 THEN <<4>>
                            ELSE IF plat = "ms" THEN <<5>> ELSE <<3>>]

RetryPrice(plat) ==
    [k \in 1..RetryKeys |-> IF plat = "ms" THEN 7 * MinorUnits
                            ELSE IF k = 3 THEN 7 ELSE 6]

RetryInit ==
    /\ now = StartClock
    /\ tick = 1
    /\ faults = MaxRetryFaults
    /\ sys_faults = 0
    /\ config \in {[price_sync_direction |-> d] :
                     d \in {"moysklad_to_shopify", "shopify_to_moysklad"}}
    /\ flaky = 1..2
    /\ touches = <<>>
    /\ second = NoCall
    /\ job = NoJob
    /\ req = NoRequest
    /\ entry = NoEntry
    /\ msCat = CatalogOf("ms", RetryKeys, 1..RetryKeys,
                         [k \in 1..RetryKeys |-> RecentStamp],
                         RetryStock("ms"), RetryPrice("ms"))
    /\ shCat = CatalogOf("sh", RetryKeys, 2..RetryKeys,
                         [k \in 1..RetryKeys |-> OldStamp],
                         RetryStock("sh"), RetryPrice("sh"))
    /\ last_sync_time = None
    /\ pc = "idle"
    /\ full_sync = FALSE
    /\ start_time = None
    /\ modified_since = None
    /\ moysklad_products = <<>>
    /\ shopify_products = <<>>
    /\ all_moysklad_products = <<>>
    /\ all_shopify_products = <<>>
    /\ dir = [w \in Workers |-> NewWorker(<<>>)]
    /\ outcome = "none"
    /\ runs = 0
    /\ prev_sync_time = None
    /\ prev = NoRun
    /\ issued = {}
    /\ settled = {}

RetryNext ==
    \/ SyncStart(TRUE)
    \/ FetchMoysklad
    \/ FetchShopify
    \/ SyncJoin
    \/ \E full \in BOOLEAN : InventoryStart(full)
    \/ InventoryFetchMoysklad
    \/ InventoryFetchShopify
    \/ \E full \in BOOLEAN : PricesStart(full)
    \/ PricesFetchMoysklad
    \/ PricesFetchShopify
    \/ OpReturn
    \/ \E w \in Workers : \E k \in DOMAIN dir[w].tasks : \E fails \in 0..StopAfterAttempt :
           RemoteDone(w, k, fails)
    \/ \E w \in Workers : ChunkJoin(w)
    \/ \E w \in Workers : Pace(w)

SpecRetry == RetryInit /\ [][RetryNext]_vars

\* ---------------------------------------------------------------------------
\* The platforms are used while the service runs: a user edits a product and
\* the platform stamps the record with the time of the edit.  The edit falls
\* into the current reading of the clock, so a record may carry the very
\* instant a sync_products call reads as its start_time.

Touched(cat, n) == [cat EXCEPT ![n].updated_at = now]

\* a product of platform plat is modified by a user of the platform
Touch(plat, n) ==
    /\ Len(touches) < MaxTouches
    /\ touches' = Append(touches, [plat |-> plat, n |-> n, stamp |-> now,
                                    busy |-> pc # "idle", run |-> runs])
    /\ IF plat = "ms"
       THEN /\ n \in 1..Len(msCat)
            /\ msCat' = Touched(msCat, n)
            /\ UNCHANGED shCat
       ELSE /\ n \in 1..Len(shCat)
            /\ shCat' = Touched(shCat, n)
            /\ UNCHANGED msCat
    /\ UNCHANGED <<now, tick, faults, sys_faults, config, flaky, job, req, entry, second, last_sync_time,
                   pc, full_sync, start_time, modified_since, moysklad_products,
                   shopify_products, all_moysklad_products, all_shopify_products,
                   dir, outcome, runs, prev_sync_time, prev, issued, settled>>

TouchNext ==
    \/ Next
    \/ \E plat \in {"ms", "sh"} : \E n \in 1..MaxKeys + 1 : Touch(plat, n)

SpecTouch == Init /\ [][TouchNext]_vars

\* ---------------------------------------------------------------------------
\* sync_products is a coroutine of a shared instance and takes no lock: a
\* second call may be made while the call that pc follows is suspended at any
\* of its awaits.  The second call is followed up to its catalog fetches, and
\* to its end when the fetches leave it nothing to send.

\* sync_products(full_sync) is called while another call may be in progress:
\* it reads the clock and the watermark, then awaits its first fetch
SecondStart(full) ==
    /\ second.pc = "idle"
    /\ second.calls < MaxOverlap
    /\ second' = [pc |-> "fetch", full_sync |-> full, start_time |-> now,
                  modified_since |-> ModifiedSince(full, last_sync_time, now),
                  calls |-> second.calls + 1]
    /\ now' = now + 1
    /\ UNCHANGED <<tick, faults, sys_faults, config, flaky, job, req, entry, touches, msCat, shCat,
                   last_sync_time, pc, full_sync, start_time, modified_since,
                   moysklad_products, shopify_products, all_moysklad_products,
                   all_shopify_products, dir, outcome, runs, prev_sync_time, prev,
                   issued, settled>>

\* a fetch of the second call raises: the call logs and re-raises
SecondFetchRaise ==
    /\ second.pc = "fetch"
    /\ sys_faults > 0
    /\ sys_faults' = sys_faults - 1
    /\ second' = [second EXCEPT !.pc = "idle"]
    /\ UNCHANGED <<now, tick, faults, config, flaky, job, req, entry, touches, msCat, shCat,
                   last_sync_time, pc, full_sync, start_time, modified_since,
                   moysklad_products, shopify_products, all_moysklad_products,
                   all_shopify_products, dir, outcome, runs, prev_sync_time, prev,
                   issued, settled>>

\* the fetches of the second call return no candidate: both directions have
\* nothing to send, the gather returns and the call writes the watermark
SecondReturn ==
    /\ second.pc = "fetch"
    /\ GetAllProducts(msCat, second.modified_since) = <<>>
    /\ GetAllProducts(shCat, second.modified_since) = <<>>
    /\ last_sync_time' = WatermarkAfterRun(last_sync_time, second.start_time)
    /\ second' = [second EXCEPT !.pc = "idle"]
    /\ UNCHANGED <<now, tick, faults, sys_faults, config, flaky, job, req, entry, touches, msCat, shCat,
                   pc, full_sync, start_time, modified_since, moysklad_products,
                   shopify_products, all_moysklad_products, all_shopify_products,
                   dir, outcome, runs, prev_sync_time, prev, issued, settled>>

OverlapNext ==
    \/ Next
    \/ \E full \in BOOLEAN : SecondStart(full)
    \/ SecondFetchRaise
    \/ SecondReturn

SpecOverlap == Init /\ [][OverlapNext]_vars

\* ---------------------------------------------------------------------------
\* run_complete_sync and run_incremental_sync: the three operations in a row,
\* over catalogs whose records carry stock and price.  A catalog fetch or the
\* code of a direction may raise once; price_sync_direction may hold a value
\* the service does not know.

JobPhases == <<"products", "inventory", "prices">>

\* the operation of phase p is called and runs up to its first await
PhaseStart(p, full) ==
    IF p = "products"
    THEN OpBegin(full, ModifiedSince(full, last_sync_time, now), "fetch_ms")
    ELSE IF p = "inventory"
    THEN OpBegin(full, Cutoff(full, last_sync_time), "inv_fetch_ms")
    ELSE OpBegin(full, Cutoff(full, last_sync_time), "pr_fetch_ms")

\* the full_sync argument run_complete_sync / run_incremental_sync passes
JobFull(kind) == kind = "complete"

\* run_complete_sync() or run_incremental_sync() is called: it reads the clock
\* ("start_time = datetime.now()") and sync_products runs up to its first
\* fetch.  watermark keeps what self.last_sync_time held at the call.
JobStart(kind) ==
    /\ job.st = "idle"
    /\ job' = [kind |-> kind, st |-> "running", phases |-> <<JobPhases[1]>>,
               start_time |-> now, watermark |-> last_sync_time]
    /\ PhaseStart(JobPhases[1], JobFull(kind))

\* the next operation is called whatever became of the one before
JobNextRegardless ==
    /\ job.st = "running"
    /\ pc = "idle"
    /\ Len(job.phases) < Len(JobPhases)
    /\ job' = [job EXCEPT !.phases = Append(@, JobPhases[Len(@) + 1])]
    /\ PhaseStart(JobPhases[Len(job.phases) + 1], JobFull(job.kind))

\* an operation returned to run_*_sync: the next one is called
JobNext ==
    /\ job.st = "running"
    /\ pc = "idle"
    /\ outcome = "returned"
    /\ Len(job.phases) < Len(JobPhases)
    /\ job' = [job EXCEPT !.phases = Append(@, JobPhases[Len(@) + 1])]
    /\ PhaseStart(JobPhases[Len(job.phases) + 1], JobFull(job.kind))

\* the last operation returned: run_*_sync returns
JobReturn ==
    /\ job.st = "running"
    /\ pc = "idle"
    /\ outcome = "returned"
    /\ Len(job.phases) = Len(JobPhases)
    /\ job' = [job EXCEPT !.st = "returned"]
    /\ UNCHANGED <<now, tick, faults, sys_faults, config, flaky, req, entry, touches, second,
                   msCat, shCat, last_sync_time, pc, full_sync, start_time,
                   modified_since, moysklad_products, shopify_products,
                   all_moysklad_products, all_shopify_products, dir, outcome, runs,
                   prev_sync_time, prev, issued, settled>>

\* an operation raised: "except Exception: logger.exception(..); raise"
JobRaise ==
    /\ job.st = "running"
    /\ pc = "idle"
    /\ outcome \in {"fetch_raised", "direction_raised"}
    /\ job' = [job EXCEPT !.st = "raised"]
    /\ UNCHANGED <<now, tick, faults, sys_faults, config, flaky, req, entry, touches, second,
                   msCat, shCat, last_sync_time, pc, full_sync, start_time,
                   modified_since, moysklad_products, shopify_products,
                   all_moysklad_products, all_shopify_products, dir, outcome, runs,
                   prev_sync_time, prev, issued, settled>>

\* the values price_sync_direction may hold: the two the service knows and one
\* it does not
PriceSyncDirections == {"moysklad_to_shopify", "shopify_to_moysklad", "both"}

JobsInit ==
    /\ now = StartClock
    /\ tick = 1
    /\ faults = MaxFaults
    /\ sys_faults = MaxSysFaults
    /\ config \in {[price_sync_direction |-> d] : d \in PriceSyncDirections}
    /\ flaky = 1..MaxFlaky
    /\ touches = <<>>
    /\ second = NoCall
    /\ job = NoJob
    /\ req = NoRequest
    /\ entry = NoEntry
    /\ msCat = CatalogOf("ms", RetryKeys, 1..RetryKeys,
                         [k \in 1..RetryKeys |-> RecentStamp],
                         RetryStock("ms"), RetryPrice("ms"))
    /\ shCat = CatalogOf("sh", RetryKeys, 2..RetryKeys,
                         [k \in 1..RetryKeys |-> OldStamp],
                         RetryStock("sh"), RetryPrice("sh"))
    /\ last_sync_time = None
    /\ pc = "idle"
    /\ full_sync = FALSE
    /\ start_time = None
    /\ modified_since = None
    /\ moysklad_products = <<>>
    /\ shopify_products = <<>>
    /\ all_moysklad_products = <<>>
    /\ all_shopify_products = <<>>
    /\ dir = [w \in Workers |-> NewWorker(<<>>)]
    /\ outcome = "none"
    /\ runs = 0
    /\ prev_sync_time = None
    /\ prev = NoRun
    /\ issued = {}
    /\ settled = {}

JobsNext ==
    \/ \E kind \in {"complete", "incremental"} : JobStart(kind)
    \/ JobNext
    \/ JobReturn
    \/ JobRaise
    \/ FetchMoysklad
    \/ FetchShopify
    \/ FetchAllMoysklad
    \/ FetchAllShopify
    \/ FetchRaise
    \/ SyncJoin
    \/ InventoryFetchMoysklad
    \/ InventoryFetchShopify
    \/ PricesFetchMoysklad
    \/ PricesFetchShopify
    \/ OpReturn
    \/ \E w \in Workers : \E k \in DOMAIN dir[w].tasks : \E fails \in 0..StopAfterAttempt :
           RemoteDone(w, k, fails)
    \/ \E w \in Workers : ChunkJoin(w)
    \/ \E w \in Workers : Pace(w)
    \/ \E w \in Directions : DirRaise(w)

SpecJobs == JobsInit /\ [][JobsNext]_vars

\* ---------------------------------------------------------------------------
\* run_incremental_sync after an earlier sync_products call, with the platforms
\* edited meanwhile: the watermark is set when the run begins.  No call raises.

IncrInit ==
    /\ now = StartClock
    /\ tick = 1
    /\ faults = 0
    /\ sys_faults = 0
    /\ config = [price_sync_direction |-> "moysklad_to_shopify"]
    /\ flaky = {}
    /\ touches = <<>>
    /\ second = NoCall
    /\ job = NoJob
    /\ req = NoRequest
    /\ entry = NoEntry
    /\ msCat = CatalogOf("ms", RetryKeys, 1..RetryKeys,
                         [k \in 1..RetryKeys |-> RecentStamp],
                         RetryStock("ms"), RetryPrice("ms"))
    /\ shCat = CatalogOf("sh", RetryKeys, 2..RetryKeys,
                         [k \in 1..RetryKeys |-> OldStamp],
                         RetryStock("sh"), RetryPrice("sh"))
    /\ last_sync_time = None
    /\ pc = "idle"
    /\ full_sync = FALSE
    /\ start_time = None
    /\ modified_since = None
    /\ moysklad_products = <<>>
    /\ shopify_products = <<>>
    /\ all_moysklad_products = <<>>
    /\ all_shopify_products = <<>>
    /\ dir = [w \in Workers |-> NewWorker(<<>>)]
    /\ outcome = "none"
    /\ runs = MaxRuns - 1
    /\ prev_sync_time = None
    /\ prev = NoRun
    /\ issued = {}
    /\ settled = {}

IncrNext ==
    \/ job.st = "idle" /\ SyncStart(TRUE)
    \/ JobStart("incremental")
    \/ JobNext
    \/ JobReturn
    \/ FetchMoysklad
    \/ FetchShopify
    \/ FetchAllMoysklad
    \/ FetchAllShopify
    \/ SyncJoin
    \/ InventoryFetchMoysklad
    \/ InventoryFetchShopify
    \/ PricesFetchMoysklad
    \/ PricesFetchShopify
    \/ OpReturn
    \/ \E w \in Workers : \E k \in DOMAIN dir[w].tasks : RemoteDone(w, k, 0)
    \/ \E w \in Workers : ChunkJoin(w)
    \/ \E w \in Workers : Pace(w)
    \/ \E n \in 1..RetryKeys : Touch("ms", n)

SpecIncr == IncrInit /\ [][IncrNext]_vars

\* ---------------------------------------------------------------------------
\* One full call of one of the three operations over catalogs that fill more
\* than one batch.  Every record has its counterpart.  The records of `hot`
\* are newer on Moysklad and differ in stock and price, the others are equal on
\* both platforms up to the unit of the price.  The writes of the call fall
\* into one reading of the clock.

\* the records that differ: of the second batch, of the first, or of both
PaceHot == {{MaxActions}, {1, 2}, {1, 2, MaxActions}}

PaceInit ==
    /\ now = StartClock
    /\ tick = 0
    /\ faults = StopAfterAttempt
    /\ sys_faults = 0
    /\ config \in {[price_sync_direction |-> d] :
                     d \in {"moysklad_to_shopify", "shopify_to_moysklad"}}
    /\ touches = <<>>
    /\ second = NoCall
    /\ job = NoJob
    /\ req = NoRequest
    /\ entry = NoEntry
    /\ \E hot \in PaceHot :
          /\ msCat = CatalogOf("ms", MaxActions, 1..MaxActions,
                               [k \in 1..MaxActions |->
                                   IF k \in hot THEN RecentStamp ELSE OldStamp],
                               [k \in 1..MaxActions |->
                                   IF k \in hot THEN <<5>> ELSE <<3>>],
                               [k \in 1..MaxActions |->
                                   IF k \in hot THEN 7 * MinorUnits ELSE 6 * MinorUnits])
          /\ shCat = CatalogOf("sh", MaxActions, 1..MaxActions,
                               [k \in 1..MaxActions |-> OldStamp],
                               [k \in 1..MaxActions |-> <<3>>],
                               [k \in 1..MaxActions |-> 6])
          /\ flaky = hot
    /\ last_sync_time = None
    /\ pc = "idle"
    /\ full_sync = FALSE
    /\ start_time = None
    /\ modified_since = None
    /\ moysklad_products = <<>>
    /\ shopify_products = <<>>
    /\ all_moysklad_products = <<>>
    /\ all_shopify_products = <<>>
    /\ dir = [w \in Workers |-> NewWorker(<<>>)]
    /\ outcome = "none"
    /\ runs = MaxRuns - 1
    /\ prev_sync_time = None
    /\ prev = NoRun
    /\ issued = {}
    /\ settled = {}

PaceNext ==
    \/ SyncStart(TRUE)
    \/ FetchMoysklad
    \/ FetchShopify
    \/ SyncJoin
    \/ InventoryStart(TRUE)
    \/ InventoryFetchMoysklad
    \/ InventoryFetchShopify
    \/ PricesStart(TRUE)
    \/ PricesFetchMoysklad
    \/ PricesFetchShopify
    \/ OpReturn
    \/ \E w \in Workers : \E k \in DOMAIN dir[w].tasks : \E fails \in 0..StopAfterAttempt :
           RemoteDone(w, k, fails)
    \/ \E w \in Workers : ChunkJoin(w)
    \/ \E w \in Workers : Pace(w)

SpecPace == PaceInit /\ [][PaceNext]_vars

\* ---------------------------------------------------------------------------
\* The HTTP clients of the two platforms.  A request is followed from the call
\* to its return or raise; the platform answers each attempt with a status of
\* its choice (with or without a Retry-After header) or the connection fails.

\* "max_retries=3" of MoyskladClient._make_request
max_retries == 3

\* "response.headers.get('Retry-After', 5)"
DefaultRetryAfter == 5

\* the largest Retry-After a platform sends
MaxRetryAfter == 2

\* the statuses a platform answers with
Statuses == {200, 201, 429, 500}

\* the Retry-After header of a response: None when the header is absent
RetryAfterHeaders == {None} \cup (1..MaxRetryAfter)

\* one answer of a platform as the client sees it; status None stands for an
\* exception of the requests library (no answer)
Answer(status, retry_after) == [status |-> status, retry_after |-> retry_after]

\* 2 ** n
RECURSIVE Pow2(_)
Pow2(n) == IF n = 0 THEN 1 ELSE 2 * Pow2(n - 1)

\* _make_request(...) or _execute_graphql(...) is called
ClientCall(client) ==
    /\ req.pc = "idle"
    /\ req' = [NoRequest EXCEPT !.client = client, !.pc = "sending"]
    /\ UNCHANGED <<now, tick, faults, sys_faults, config, flaky, job, entry, touches, second,
                   msCat, shCat, last_sync_time, pc, full_sync, start_time,
                   modified_since, moysklad_products, shopify_products,
                   all_moysklad_products, all_shopify_products, dir, outcome, runs,
                   prev_sync_time, prev, issued, settled>>

\* "if self._handle_rate_limit(response): retry_count += 1; continue", and the
\* while condition that follows: r is the request unchanged when the answer is
\* no 429
HandleRateLimit(r, a) ==
    IF a.status = 429
    THEN LET w == IF a.retry_after # None THEN a.retry_after ELSE DefaultRetryAfter
             n == r.retry_count + 1
         IN  [r EXCEPT !.slept = @ + w,
                       !.retry_count = n,
                       !.pc = IF n < max_retries THEN "sending" ELSE "returned",
                       !.result = IF n < max_retries THEN @ ELSE "None"]
    ELSE r

\* an except branch that raises at the first error
MoyskladExceptNoRetry(r) == [r EXCEPT !.retry_count = @ + 1, !.pc = "raised"]

\* "except Exception: retry_count += 1; if retry_count >= max_retries: raise;
\* time.sleep(2 ** retry_count)"
MoyskladExcept(r) ==
    LET n == r.retry_count + 1
    IN  IF n >= max_retries
        THEN [r EXCEPT !.retry_count = n, !.pc = "raised"]
        ELSE [r EXCEPT !.retry_count = n, !.slept = @ + Pow2(n)]

\* one pass of the while loop of MoyskladClient._make_request with answer a
MoyskladPass(r, a) ==
    LET logged == [r EXCEPT !.log = Append(@, a)]
    IN  IF a.status = None THEN MoyskladExcept(logged)
        ELSE IF a.status = 429 THEN HandleRateLimit(logged, a)
        ELSE IF a.status >= 400 THEN MoyskladExcept(logged)
        ELSE [logged EXCEPT !.pc = "returned", !.result = "json"]

\* the Moysklad platform answers an attempt of _make_request
MoyskladAnswer(a) ==
    /\ req.client = "ms"
    /\ req.pc = "sending"
    /\ req.retry_count < max_retries
    /\ req' = MoyskladPass(req, a)
    /\ UNCHANGED <<now, tick, faults, sys_faults, config, flaky, job, entry, touches, second,
                   msCat, shCat, last_sync_time, pc, full_sync, start_time,
                   modified_since, moysklad_products, shopify_products,
                   all_moysklad_products, all_shopify_products, dir, outcome, runs,
                   prev_sync_time, prev, issued, settled>>

\* ShopifyClient._execute_graphql with answer a: requests.post raises, or
\* "if response.status_code != 200: response.raise_for_status()" (which raises
\* for 4xx and 5xx), or the body is returned
ShopifyPass(r, a) ==
    LET logged == [r EXCEPT !.log = Append(@, a)]
    IN  IF a.status = None THEN [logged EXCEPT !.pc = "raised"]
        ELSE IF a.status # 200 /\ a.status >= 400 THEN [logged EXCEPT !.pc = "raised"]
        ELSE [logged EXCEPT !.pc = "returned", !.result = "json"]

\* the Shopify platform answers the POST of _execute_graphql
ShopifyAnswer(a) ==
    /\ req.client = "sh"
    /\ req.pc = "sending"
    /\ req' = ShopifyPass(req, a)
    /\ UNCHANGED <<now, tick, faults, sys_faults, config, flaky, job, entry, touches, second,
                   msCat, shCat, last_sync_time, pc, full_sync, start_time,
                   modified_since, moysklad_products, shopify_products,
                   all_moysklad_products, all_shopify_products, dir, outcome, runs,
                   prev_sync_time, prev, issued, settled>>

\* what a platform may answer
Answers ==
    {Answer(s, None) : s \in Statuses \cup {None}}
        \cup {Answer(429, h) : h \in RetryAfterHeaders}

ClientNext ==
    \/ \E client \in {"ms", "sh"} : ClientCall(client)
    \/ \E a \in Answers : MoyskladAnswer(a)
    \/ \E a \in Answers : ShopifyAnswer(a)

SpecClient == Init /\ [][ClientNext]_vars

\* every request a client has sent is answered, or its connection fails
SpecClientFair ==
    /\ SpecClient
    /\ WF_vars(\E a \in Answers : MoyskladAnswer(a))
    /\ WF_vars(\E a \in Answers : ShopifyAnswer(a))

\* ---------------------------------------------------------------------------
\* One full call of one of the three operations over catalogs as the platforms
\* may return them: records without an identity key, and several records
\* with one key.

\* the longest catalog
MaxIndexLen == 2

\* the identity keys of the records: None, or one of two keys
IndexKeys == {None, 1, 2}

\* the sequences of at most n identity keys
KeySeqs(n) == UNION {[1..l -> IndexKeys] : l \in 0..n}

\* the catalog of platform plat whose records carry the keys of ks, in order
IndexCatalog(plat, ks) ==
    [p \in 1..Len(ks) |->
        IF plat = "ms"
        THEN MsProduct(100 + p, ks[p], RecentStamp, <<5>>, 7 * MinorUnits)
        ELSE ShProduct(200 + p, ks[p], OldStamp, <<3>>, 6)]

IndexInit ==
    /\ now = StartClock
    /\ tick = 0
    /\ faults = 0
    /\ sys_faults = 0
    /\ config \in {[price_sync_direction |-> d] :
                     d \in {"moysklad_to_shopify", "shopify_to_moysklad"}}
    /\ flaky = {}
    /\ touches = <<>>
    /\ second = NoCall
    /\ job = NoJob
    /\ req = NoRequest
    /\ entry = NoEntry
    /\ msCat \in {IndexCatalog("ms", ks) : ks \in KeySeqs(MaxIndexLen)}
    /\ shCat \in {IndexCatalog("sh", ks) : ks \in KeySeqs(MaxIndexLen)}
    /\ last_sync_time = None
    /\ pc = "idle"
    /\ full_sync = FALSE
    /\ start_time = None
    /\ modified_since = None
    /\ moysklad_products = <<>>
    /\ shopify_products = <<>>
    /\ all_moysklad_products = <<>>
    /\ all_shopify_products = <<>>
    /\ dir = [w \in Workers |-> NewWorker(<<>>)]
    /\ outcome = "none"
    /\ runs = MaxRuns - 1
    /\ prev_sync_time = None
    /\ prev = NoRun
    /\ issued = {}
    /\ settled = {}

SpecIndex == IndexInit /\ [][RetryNext]_vars

\* ---------------------------------------------------------------------------
\* main(): SyncService.sync_products_to_moysklad, the script that copies the
\* products of Shopify to Moysklad, run up to MaxRuns times in a row over a
\* Shopify catalog nobody edits.  A request may fail once.

\* "self.shopify.get_products(limit=50)"
ProductsLimit == 50

\* ShopifyClient.get_products(limit): the query "products(first: $limit)"
get_products(cat, limit) == SubSeq(cat, 1, Min(limit, Len(cat)))

\* the payload built of a product node: the externalCode is the last part of
\* the Shopify id (name, description and article are taken from fields the
\* catalog records do not carry)
moysklad_product(product) == [externalCode |-> product.id]

\* main() is run
MainStart ==
    /\ entry.pc \in {"idle", "returned", "raised"}
    /\ entry.run < MaxRuns
    /\ entry' = [entry EXCEPT !.pc = "get_products", !.run = @ + 1,
                              !.shopify_products = <<>>, !.i = 0]
    /\ UNCHANGED sys_faults
    /\ UNCHANGED <<now, tick, faults, config, flaky, job, req, touches, second,
                   msCat, shCat, last_sync_time, pc, full_sync, start_time,
                   modified_since, moysklad_products, shopify_products,
                   all_moysklad_products, all_shopify_products, dir, outcome, runs,
                   prev_sync_time, prev, issued, settled>>

\* the loop of sync_products_to_moysklad at its head
LoopHead(e) == IF e.i < Len(e.shopify_products) THEN "loop" ELSE "returned"

\* get_products returns the body of the answer: the edges of the products, or
\* an error body, in which ".get('data', {})..." finds no edge
GetProductsReturn(ok) ==
    /\ entry.pc = "get_products"
    /\ LET edges == IF ok THEN get_products(shCat, ProductsLimit) ELSE <<>>
           e == [entry EXCEPT !.shopify_products = edges]
       IN  entry' = [e EXCEPT !.pc = LoopHead(e)]
    /\ UNCHANGED sys_faults
    /\ UNCHANGED <<now, tick, faults, config, flaky, job, req, touches, second,
                   msCat, shCat, last_sync_time, pc, full_sync, start_time,
                   modified_since, moysklad_products, shopify_products,
                   all_moysklad_products, all_shopify_products, dir, outcome, runs,
                   prev_sync_time, prev, issued, settled>>

\* one pass of the loop: the payload of the next product is built and
\* create_product POSTs it; Moysklad answers with the new product (its id) or
\* with an error body, which is printed as 'error'
LoopBody(result) ==
    /\ entry.pc = "loop"
    /\ LET product == entry.shopify_products[entry.i + 1]
           e == [entry EXCEPT
                    !.i = @ + 1,
                    !.posted = Append(@, [run |-> entry.run,
                                          data |-> moysklad_product(product),
                                          result |-> result])]
       IN  entry' = [e EXCEPT !.pc = LoopHead(e)]
    /\ UNCHANGED sys_faults
    /\ UNCHANGED <<now, tick, faults, config, flaky, job, req, touches, second,
                   msCat, shCat, last_sync_time, pc, full_sync, start_time,
                   modified_since, moysklad_products, shopify_products,
                   all_moysklad_products, all_shopify_products, dir, outcome, runs,
                   prev_sync_time, prev, issued, settled>>

\* requests.post raises (no connection): nothing catches it, main() ends
RequestRaises ==
    /\ entry.pc \in {"get_products", "loop"}
    /\ sys_faults > 0
    /\ sys_faults' = sys_faults - 1
    /\ entry' = [entry EXCEPT !.pc = "raised"]
    /\ UNCHANGED <<now, tick, faults, config, flaky, job, req, touches, second,
                   msCat, shCat, last_sync_time, pc, full_sync, start_time,
                   modified_since, moysklad_products, shopify_products,
                   all_moysklad_products, all_shopify_products, dir, outcome, runs,
                   prev_sync_time, prev, issued, settled>>

\* the identity keys of the Shopify catalog
MainKeys == {1, 2}

MainInit ==
    /\ now = StartClock
    /\ tick = 0
    /\ faults = 0
    /\ sys_faults = MaxSysFaults
    /\ config = [price_sync_direction |-> "moysklad_to_shopify"]
    /\ flaky = {}
    /\ touches = <<>>
    /\ second = NoCall
    /\ job = NoJob
    /\ req = NoRequest
    /\ entry = NoEntry
    /\ msCat = <<>>
    /\ shCat \in {IndexCatalog("sh", ks) :
                     ks \in UNION {[1..l -> MainKeys] : l \in 0..MaxIndexLen}}
    /\ last_sync_time = None
    /\ pc = "idle"
    /\ full_sync = FALSE
    /\ start_time = None
    /\ modified_since = None
    /\ moysklad_products = <<>>
    /\ shopify_products = <<>>
    /\ all_moysklad_products = <<>>
    /\ all_shopify_products = <<>>
    /\ dir = [w \in Workers |-> NewWorker(<<>>)]
    /\ outcome = "none"
    /\ runs = 0
    /\ prev_sync_time = None
    /\ prev = NoRun
    /\ issued = {}
    /\ settled = {}

MainNext ==
    \/ MainStart
    \/ \E ok \in BOOLEAN : GetProductsReturn(ok)
    \/ \E result \in {"id", "error"} : LoopBody(result)
    \/ RequestRaises

SpecMain == MainInit /\ [][MainNext]_vars

\* =================================================================== claims

\* ------------------------------------------------------------------------
\* C1: if sync_products raises while fetching a catalog (the filtered or the
\* unfiltered fetch, full or incremental), last_sync_time after the call is
\* what it was before the call.
C1_FetchRaiseKeepsWatermark ==
    (pc = "idle" /\ outcome = "fetch_raised") => last_sync_time = prev_sync_time

\* an incremental call with a watermark set has raised in a fetch
C1_Witness ==
    /\ pc = "idle"
    /\ outcome = "fetch_raised"
    /\ ~full_sync
    /\ prev_sync_time # None
    /\ last_sync_time = prev_sync_time

\* ------------------------------------------------------------------------
\* C2: a sync_products run in which at least one create/update action ended
\* as a failure (after its retries) leaves last_sync_time unchanged.
C2_FailedRunKeepsWatermark ==
    (pc = "idle" /\ \E e \in settled : e.res = "failed")
        => last_sync_time = prev_sync_time

\* ------------------------------------------------------------------------
\* C3: a record whose action failed in a sync_products run (and that nobody
\* modified since) is a candidate of the next run, full or incremental: once
\* that run has started its directions, the record is among the valid
\* products of the direction in which it failed.  Stated for the records that
\* carry updated_at, those a modification cutoff can select.
C3_FailedRecordSelectedAgain ==
    pc = "gather"
        => \A f \in {g \in prev.failed : g[3] # None} :
              \E n \in 1..Len(dir[f[1]].valid_products) :
                  Key(f[1], dir[f[1]].valid_products[n]) = f[2]

\* ------------------------------------------------------------------------
\* C4: after a full sync_products run in which every action succeeded, an
\* immediately following full run sends no create and no update to either
\* platform (nobody but the sync changes the catalogs; each remote write
\* stamps the written record with the time of the write).  Stated for
\* catalogs all of whose records carry updated_at.
C4_SecondFullRunSendsNothing ==
    (/\ full_sync
     /\ prev.full
     /\ prev.outcome = "returned"
     /\ prev.failed = {}
     /\ \A n \in 1..Len(msCat) : HasUpdatedAt(msCat[n])
     /\ \A n \in 1..Len(shCat) : HasUpdatedAt(shCat[n]))
        => issued = {}

\* ------------------------------------------------------------------------
\* C5: when a direction task raises, sync_products does not raise to its
\* caller before both direction tasks have completed.
C5_RaisesAfterBothDirections ==
    (pc = "idle" /\ outcome = "direction_raised")
        => \A w \in Directions : dir[w].pc \in {"done", "raised"}

\* ------------------------------------------------------------------------
\* C6: for the N actions a direction has handed to the scheduler so far, the
\* result lists the scheduler has returned hold N outcomes, one per action,
\* also when some of the actions failed.
C6_SchedulerReturnsAllOutcomes ==
    \A w \in Directions :
        dir[w].pc \in {"sleep", "done"} => dir[w].returned = dir[w].handed

\* ------------------------------------------------------------------------
\* C7: failure isolation.  With no systemic error, an action that failed
\* after its retries makes neither its direction task nor sync_products
\* raise, and when sync_products has returned every valid record of either
\* direction, of any batch, has had its action executed.
C7_FailureIsolation ==
    /\ \A w \in Directions : dir[w].pc # "raised"
    /\ outcome # "direction_raised"
    /\ (pc = "idle" /\ outcome = "returned")
          => \A w \in Directions : \A n \in 1..Len(dir[w].valid_products) :
                 \E e \in settled :
                     e.w = w /\ e.key = Key(w, dir[w].valid_products[n])

\* sync_products has returned from two batches, the first action of the first
\* batch having failed
C7_Witness ==
    /\ pc = "idle"
    /\ outcome = "returned"
    /\ Len(dir["ms2sh"].valid_products) > BATCH_SIZE
    /\ \E e \in settled : e.w = "ms2sh" /\ e.key = 1 /\ e.res = "failed"
    /\ \E e \in settled : e.w = "ms2sh" /\ e.key = MaxActions /\ e.res = "ok"

\* ------------------------------------------------------------------------
\* C8: at no moment are more than MAX_CONCURRENT_TASKS (5) actions of the
\* batch of a direction in flight.
C8_ConcurrencyCap ==
    \A w \in Directions :
        Cardinality({k \in 1..Len(dir[w].tasks) : dir[w].tasks[k].st = "inflight"})
            <= 5

\* five actions of a batch of 50 are in flight
C8_Witness ==
    \E w \in Directions :
        /\ Len(dir[w].tasks) = BATCH_SIZE
        /\ Cardinality({k \in 1..Len(dir[w].tasks) : dir[w].tasks[k].st = "inflight"})
               = MAX_CONCURRENT_TASKS

\* ------------------------------------------------------------------------
\* C9: retry bound.  Every wrapper (create, update, inventory, price) calls
\* its remote call at most 3 times per action; an action whose call raised
\* twice and then returned is a success after exactly 3 calls; an action whose
\* call raised 3 times is a failure after exactly 3 calls, and the failure is
\* the outcome the scheduler gets for the action.
C9_RetryBound ==
    \A w \in Workers : \A k \in 1..Len(dir[w].tasks) :
        LET t == dir[w].tasks[k]
        IN  /\ t.calls <= 3
            /\ (t.st = "ok" /\ t.raised = 2) => t.calls = 3
            /\ t.st = "failed" => t.raised = 3
            /\ t.raised = 3
                 => /\ t.st = "failed"
                    /\ t.calls = 3
                    /\ \E e \in settled :
                           e.w = w /\ e.key = Key(w, t.src) /\ e.res = "failed"

\* a price action has succeeded at its third call, after an inventory action
\* of the operation before has failed at its third call
C9_Witness ==
    /\ \E f \in prev.failed : f[1] = "inventory"
    /\ \E k \in 1..Len(dir[PriceWorker].tasks) :
           LET t == dir[PriceWorker].tasks[k]
           IN  t.op = "price" /\ t.st = "ok" /\ t.raised = 2 /\ t.calls = 3

\* ------------------------------------------------------------------------
\* C10: skip rule.  In either direction, for a source record with a
\* counterpart in the target index, if both carry updated_at and the source's
\* is equal to or older than the target's, no update call is sent for the
\* record and the action settles as a non-failure.
C10_SkipRule ==
    \A w \in Directions : \A k \in 1..Len(dir[w].tasks) :
        LET t == dir[w].tasks[k]
        IN  (/\ t.st # "new"
             /\ t.tgt # NoProduct
             /\ t.src.updated_at # None
             /\ t.tgt.updated_at # None
             /\ t.src.updated_at <= t.tgt.updated_at)
                => /\ t.st = "ok"
                   /\ t.calls = 0
                   /\ ~\E e \in issued : e.w = w /\ e.src = t.src.id

\* an update action of equal stamps has settled without a call
C10_Witness ==
    \E w \in Directions : \E k \in 1..Len(dir[w].tasks) :
        LET t == dir[w].tasks[k]
        IN  /\ t.op = "update"
            /\ t.src.updated_at # None
            /\ t.src.updated_at = t.tgt.updated_at
            /\ t.st = "ok"
            /\ t.calls = 0

\* ------------------------------------------------------------------------
\* C11: create/update selection.  In either direction of sync_products a
\* create is sent for a source record exactly when no record of the target
\* catalog fetched for the lookup of that run carries its identity key, and
\* an update is sent only for a source record whose key such a record carries.
C11_CreateUpdateSelection ==
    /\ \A e \in issued :
          LET snap == IF e.w = "ms2sh" THEN all_shopify_products
                                      ELSE all_moysklad_products
              present == \E n \in 1..Len(snap) :
                             (IF e.w = "ms2sh" THEN snap[n].sku ELSE snap[n].code) = e.key
          IN  /\ e.op \in {"create", "update"}
              /\ e.op = "create" <=> ~present
    /\ \A w \in Directions : \A k \in 1..Len(dir[w].tasks) :
          LET t == dir[w].tasks[k]
              snap == IF w = "ms2sh" THEN all_shopify_products
                                    ELSE all_moysklad_products
              present == \E n \in 1..Len(snap) :
                             (IF w = "ms2sh" THEN snap[n].sku ELSE snap[n].code)
                                 = Key(w, t.src)
          IN  (t.st # "new" /\ ~present)
                 => \E e \in issued :
                        e.w = w /\ e.key = Key(w, t.src) /\ e.op = "create"

\* an incremental call has sent a create for a record modified since the cutoff
C11_Witness ==
    /\ ~full_sync
    /\ \E e \in issued : e.op = "create" /\ e.w = "sh2ms"

\* ------------------------------------------------------------------------
\* C12: every update sent to a platform carries the id of the counterpart the
\* lookup of that platform's catalog found under the source's identity key:
\* not the id of the source record, not no id, not a new id.
C12_UpdateCarriesTargetId ==
    \A e \in issued :
        e.op = "update"
            => LET snap == IF e.w = "ms2sh" THEN all_shopify_products
                                           ELSE all_moysklad_products
               IN  /\ e.id # None
                   /\ e.id # e.src
                   /\ \E n \in 1..Len(snap) :
                          /\ (IF e.w = "ms2sh" THEN snap[n].sku ELSE snap[n].code) = e.key
                          /\ snap[n].id = e.id

\* an update has been sent to Shopify
C12_Witness ==
    \E e \in issued : e.op = "update" /\ e.w = "ms2sh" /\ e.id # None

\* ------------------------------------------------------------------------
\* C13: per-key outcome of a full sync_products call that has returned, the
\* keys being unique per platform and every record carrying updated_at.  A key
\* on one platform only: one create on the other platform and nothing else.
\* A key on both with different updated_at: one update, sent to the platform
\* of the older record with that record's id, and nothing else.  A key on
\* both with equal updated_at: nothing.
C13_PerKeyOutcome ==
    (/\ pc = "idle"
     /\ outcome = "returned"
     /\ full_sync
     /\ \A n \in 1..Len(moysklad_products) :
           /\ HasUpdatedAt(moysklad_products[n])
           /\ \A m \in 1..Len(moysklad_products) :
                  moysklad_products[m].code = moysklad_products[n].code => m = n
     /\ \A n \in 1..Len(shopify_products) :
           /\ HasUpdatedAt(shopify_products[n])
           /\ \A m \in 1..Len(shopify_products) :
                  shopify_products[m].sku = shopify_products[n].sku => m = n)
        => \A key \in {moysklad_products[n].code : n \in 1..Len(moysklad_products)}
                      \cup {shopify_products[n].sku : n \in 1..Len(shopify_products)} :
              LET M == {moysklad_products[n] : n \in
                           {i \in 1..Len(moysklad_products) :
                               moysklad_products[i].code = key}}
                  S == {shopify_products[n] : n \in
                           {i \in 1..Len(shopify_products) :
                               shopify_products[i].sku = key}}
                  sent == {e \in issued : e.key = key}
              IN  IF S = {}
                  THEN \A m \in M :
                         sent = {[w |-> "ms2sh", op |-> "create", key |-> key,
                                  src |-> m.id, id |-> None]}
                  ELSE IF M = {}
                  THEN \A r \in S :
                         sent = {[w |-> "sh2ms", op |-> "create", key |-> key,
                                  src |-> r.id, id |-> None]}
                  ELSE \A m \in M : \A r \in S :
                         IF m.updated_at > r.updated_at
                         THEN sent = {[w |-> "ms2sh", op |-> "update", key |-> key,
                                       src |-> m.id, id |-> r.id]}
                         ELSE IF m.updated_at < r.updated_at
                         THEN sent = {[w |-> "sh2ms", op |-> "update", key |-> key,
                                       src |-> r.id, id |-> m.id]}
                         ELSE sent = {}

\* a full call has returned after one update, sent to Moysklad, which held
\* the older record of the key
C13_Witness ==
    /\ pc = "idle"
    /\ outcome = "returned"
    /\ full_sync
    /\ Len(moysklad_products) = 1
    /\ Len(shopify_products) = 1
    /\ HasUpdatedAt(moysklad_products[1])
    /\ moysklad_products[1].updated_at < shopify_products[1].updated_at
    /\ \E e \in issued : e.op = "update" /\ e.w = "sh2ms"
    /\ Cardinality(issued) = 1

\* ------------------------------------------------------------------------
\* C14: incremental matching.  When the directions of an incremental
\* sync_products call start, every action has a record of the filtered fetch
\* as its source, and a source whose identity key a record of the target
\* platform carries (modified since the cutoff or not) is not given a create.
C14_IncrementalMatching ==
    [][(pc = "fetch_all_sh" /\ pc' = "gather")
          => \A w \in Directions : \A k \in 1..Len(dir'[w].tasks) :
                LET t == dir'[w].tasks[k]
                    filtered == IF w = "ms2sh" THEN moysklad_products
                                              ELSE shopify_products
                    target == IF w = "ms2sh" THEN shCat ELSE msCat
                IN  /\ \E n \in 1..Len(filtered) : filtered[n] = t.src
                    /\ (\E n \in 1..Len(target) :
                            (IF w = "ms2sh" THEN target[n].sku ELSE target[n].code)
                                = Key(w, t.src))
                          => t.op = "update"]_vars

\* an incremental call has made an update action for a record whose
\* counterpart was not modified since the cutoff
C14_Witness ==
    /\ ~full_sync
    /\ modified_since # None
    /\ \E w \in Directions : \E k \in 1..Len(dir[w].tasks) :
           LET t == dir[w].tasks[k]
           IN  /\ t.op = "update"
               /\ t.st # "new"
               /\ t.src.updated_at >= modified_since
               /\ t.tgt.updated_at < modified_since

\* ------------------------------------------------------------------------
\* C15: mode resolution of sync_products.  While a call runs its cutoff is
\* the watermark it found if it is incremental and found one, the start of
\* the call minus 24 hours if it is incremental and found none, and no cutoff
\* if it is full; the filtered fetches of both catalogs return what that
\* cutoff selects, everything for a full call.
C15_ModeResolution ==
    LET cutoff == IF full_sync THEN None
                  ELSE IF prev_sync_time # None THEN prev_sync_time
                  ELSE start_time - 24
        Selected(cat) ==
            SelectSeq(cat, LAMBDA p : cutoff = None \/
                                      (p.updated_at # None /\ p.updated_at >= cutoff))
    IN  /\ pc # "idle" => modified_since = cutoff
        /\ pc = "fetch_sh" => moysklad_products = Selected(msCat)
        /\ pc = "fetch_all_ms" => shopify_products = Selected(shCat)
        /\ (pc = "fetch_sh" /\ full_sync) => moysklad_products = msCat

\* a full call that found a watermark has fetched a Moysklad record older
\* than the watermark
C15_Witness ==
    /\ pc = "fetch_sh"
    /\ full_sync
    /\ prev_sync_time # None
    /\ modified_since = None
    /\ \E n \in 1..Len(moysklad_products) :
           moysklad_products[n].updated_at < prev_sync_time

\* ------------------------------------------------------------------------
\* C16: mode resolution of the inventory and price operations.  While
\* sync_product_inventory or sync_product_prices runs, called with
\* full_sync=False and no watermark set, the cutoff of its filtered fetch is
\* the start of the call minus 24 hours.
C16_LookbackInInventoryAndPrices ==
    (/\ pc \in {"inv_fetch_ms", "inv_fetch_sh", "inv_run",
                 "pr_fetch_ms", "pr_fetch_sh", "pr_run"}
     /\ ~full_sync
     /\ prev_sync_time = None)
        => modified_since = start_time - 24

\* ------------------------------------------------------------------------
\* C17: when sync_products has returned normally, last_sync_time is the
\* timestamp the call took when it started, before its fetches, and not the
\* (later) time at which it ended.
C17_WatermarkIsStartTime ==
    (pc = "idle" /\ outcome = "returned")
        => /\ last_sync_time = start_time
           /\ last_sync_time < now

\* a call has returned after remote writes that took time
C17_Witness ==
    /\ pc = "idle"
    /\ outcome = "returned"
    /\ last_sync_time = start_time
    /\ now > start_time + 1
    /\ \E e \in settled : e.res = "ok"

\* ------------------------------------------------------------------------
\* C18: over sync_products calls made one at a time, full or incremental,
\* returning or raising, last_sync_time never decreases and never goes from a
\* set value back to unset.
C18_WatermarkMonotonic ==
    [][/\ last_sync_time' >= last_sync_time
       /\ last_sync_time # None => last_sync_time' # None]_vars

\* the watermark has moved forward from a set value
C18_Witness ==
    /\ prev_sync_time # None
    /\ last_sync_time > prev_sync_time

\* C19: with sync_products calls made one at a time and the platforms edited
\* meanwhile, when an incremental call follows a call that returned, every
\* record stamped at or after the start_time of that earlier call (an edit
\* made while it was in progress included) is among the candidates the
\* filtered fetches of the incremental call return.
C19_NoModificationMissed ==
    [][/\ (pc = "fetch_ms" /\ pc' = "fetch_sh" /\ ~full_sync
              /\ prev.outcome = "returned")
          => \A n \in 1..Len(msCat) :
                 (HasUpdatedAt(msCat[n]) /\ msCat[n].updated_at >= prev.started)
                 => \E m \in 1..Len(moysklad_products') :
                        moysklad_products'[m] = msCat[n]
       /\ (pc = "fetch_sh" /\ pc' \in {"fetch_all_ms", "gather"} /\ ~full_sync
              /\ prev.outcome = "returned")
          => \A n \in 1..Len(shCat) :
                 (HasUpdatedAt(shCat[n]) /\ shCat[n].updated_at >= prev.started)
                 => \E m \in 1..Len(shopify_products') :
                        shopify_products'[m] = shCat[n]]_vars

\* an incremental call after a returned call has fetched a Moysklad record that
\* a user edited while the earlier call was in progress
C19_Witness ==
    /\ pc = "fetch_sh"
    /\ ~full_sync
    /\ prev.outcome = "returned"
    /\ \E e \in {touches[i] : i \in 1..Len(touches)} :
          /\ e.plat = "ms"
          /\ e.busy
          /\ e.run = runs - 1
          /\ e.stamp >= prev.started
          /\ \E m \in 1..Len(moysklad_products) :
                /\ moysklad_products[m] = msCat[e.n]
                /\ moysklad_products[m].updated_at = e.stamp

\* C20: on one instance at most one sync_products call is in progress at any
\* time: while one call is between its start and its return or raise, no other
\* call has read the clock and the watermark and awaits its fetches.
C20_OneOperationAtATime ==
    ~(pc # "idle" /\ second.pc # "idle")

\* C21: when a catalog fetch of sync_products, sync_product_inventory or
\* sync_product_prices raises, the call is over with that exception, it has
\* sent no create, update, inventory or price call, and its caller
\* (run_complete_sync or run_incremental_sync) neither returns normally nor
\* starts a later operation.
C21_FetchRaiseAbortsCall ==
    [][outcome' = "fetch_raised"
       => /\ pc' = "idle"
          /\ issued' = {}
          /\ job'.st # "returned"
          /\ outcome = "fetch_raised" => (job'.phases = job.phases /\ msCat' = msCat
                                            /\ shCat' = shCat)]_vars

\* a fetch of sync_product_inventory raised inside run_complete_sync, after
\* sync_products had returned, and run_complete_sync raised
C21_Witness ==
    /\ outcome = "fetch_raised"
    /\ job.kind = "complete"
    /\ job.st = "raised"
    /\ job.phases = <<"products", "inventory">>
    /\ issued = {}

\* C22: within a direction (of sync_products, of the inventory sync, of a
\* price sync) the next batch is taken up only from the pacing sleep that
\* follows the batch before, with every action of that batch settled; a
\* direction that had records to work on ends only from that sleep, also when
\* the batch handed no action to the scheduler.
C22_BatchOrderAndPacing ==
    [][\A w \in Workers :
          /\ dir'[w].i > dir[w].i
             => /\ dir[w].pc = "sleep"
                /\ dir'[w].i = dir[w].i + BATCH_SIZE
                /\ \A k \in 1..Len(dir[w].tasks) : IsSettled(dir[w].tasks[k])
          /\ (dir'[w].pc = "done" /\ dir[w].pc # "done"
                 /\ dir'[w].valid_products # <<>>)
             => dir[w].pc = "sleep"]_vars

\* a price direction works on its second batch after a first batch in which no
\* price differed: nothing was handed to the scheduler before this batch
C22_Witness ==
    \E w \in {"price_ms2sh", "price_sh2ms"} :
       /\ dir[w].i = BATCH_SIZE
       /\ dir[w].pc = "gather"
       /\ dir[w].tasks # <<>>
       /\ dir[w].handed = Len(dir[w].tasks)

\* C23: run_complete_sync calls sync_products, sync_product_inventory and
\* sync_product_prices in this order, each with full_sync=True (so without a
\* modification cutoff) and each only when the one before has returned; once
\* an operation has raised no further operation is called and
\* run_complete_sync raises; it returns only after all three returned.
C23_CompleteSyncPhases ==
    [][job'.kind = "complete"
       => /\ job'.phases = SubSeq(JobPhases, 1, Len(job'.phases))
          /\ job'.phases # job.phases
             => /\ Len(job'.phases) = Len(job.phases) + 1
                /\ full_sync'
                /\ modified_since' = None
                /\ pc' = <<"fetch_ms", "inv_fetch_ms", "pr_fetch_ms">>[Len(job'.phases)]
                /\ job.phases # <<>> => (pc = "idle" /\ outcome = "returned")
          /\ (job.st = "running" /\ outcome \in {"fetch_raised", "direction_raised"})
             => /\ job'.phases = job.phases
                /\ job'.st \in {"running", "raised"}
                /\ outcome' = outcome
          /\ job'.st = "returned"
             => (job'.phases = JobPhases /\ outcome' = "returned")]_vars

\* run_complete_sync has returned after the three operations, the last of
\* which sent price updates
C23_Witness ==
    /\ job.kind = "complete"
    /\ job.st = "returned"
    /\ job.phases = <<"products", "inventory", "prices">>
    /\ \E e \in issued : e.op = "price"

\* C24: with a price_sync_direction the service does not know, no price
\* direction ever runs and no price update is sent to either platform; the
\* price sync ends by returning unless a fetch raised, and run_complete_sync
\* or run_incremental_sync raises only when a systemic error happened.
C24_UnknownDirectionIsSkipped ==
    config.price_sync_direction \notin {"moysklad_to_shopify", "shopify_to_moysklad"}
    => /\ \A e \in issued : e.op # "price"
       /\ \A w \in {"price_ms2sh", "price_sh2ms"} : dir[w] = NewWorker(<<>>)
       /\ pc # "pr_run"
       /\ (Len(job.phases) = Len(JobPhases) /\ pc = "idle"
              /\ sys_faults = MaxSysFaults)
          => outcome = "returned"
       /\ job.st = "raised" => sys_faults < MaxSysFaults

\* the direction is not known and run_incremental_sync has returned after its
\* price phase
C24_Witness ==
    /\ config.price_sync_direction = "both"
    /\ job.kind = "incremental"
    /\ job.st = "returned"
    /\ job.phases = <<"products", "inventory", "prices">>

\* C25: a sync_product_prices call runs the one price direction the setting
\* names and never the other: with "shopify_to_moysklad" every price update
\* goes to Moysklad and the Shopify catalog is not written during the call,
\* with "moysklad_to_shopify" every price update goes to Shopify and the
\* Moysklad catalog is not written during the call.
C25_PriceAuthority ==
    [][LET receiving == IF config.price_sync_direction = "moysklad_to_shopify"
                        THEN "sh" ELSE "ms"
           running == IF receiving = "sh" THEN "price_ms2sh" ELSE "price_sh2ms"
           idle == IF receiving = "sh" THEN "price_sh2ms" ELSE "price_ms2sh"
       IN  /\ \A e \in issued' : e.op = "price" => e.w = running
           /\ dir'[idle] = NewWorker(<<>>)
           /\ pc' = "pr_run" => dir'[running].pc # "new"
           /\ pc \in {"pr_fetch_ms", "pr_fetch_sh", "pr_run"}
              => /\ receiving = "ms" => shCat' = shCat
                 /\ receiving = "sh" => msCat' = msCat]_vars

\* with the setting "shopify_to_moysklad" a price sync has sent a price update
\* to Moysklad
C25_Witness ==
    /\ config.price_sync_direction = "shopify_to_moysklad"
    /\ pc = "pr_run"
    /\ \E e \in issued : e.op = "price" /\ e.w = "price_sh2ms"
    /\ \E n \in 1..Len(msCat) : msCat[n].updated_at > StartClock

\* C26: in either price direction, every price update that is built for a
\* matched pair is for a pair whose authoritative price, converted to the unit
\* of the receiving platform (Moysklad: minor units, Shopify: major units),
\* differs from the price the receiving platform holds.
C26_PriceUpdateOnlyWhenDifferent ==
    \A w \in {"price_ms2sh", "price_sh2ms"} :
       \A k \in 1..Len(dir[w].tasks) :
          LET t == dir[w].tasks[k]
              translated == IF w = "price_sh2ms" THEN t.src.price * MinorUnits
                            ELSE t.src.price \div MinorUnits
          IN  translated # t.tgt.price

\* C27: in the inventory sync, a pair whose Moysklad stock (0 when absent)
\* equals the stock the fetched Shopify record holds gets no remote call: its
\* wrapper returns at once; every pair for which update_inventory was called
\* has a Shopify stock that is unknown or different.
C27_InventoryOnlyWhenDifferent ==
    \A k \in 1..Len(dir["inventory"].tasks) :
       LET t == dir["inventory"].tasks[k]
           erp == IF t.src.stock = <<>> THEN 0 ELSE t.src.stock[1]
           equal == t.tgt.inventory_quantity = <<erp>>
       IN  /\ equal => (t.calls = 0 /\ (t.st # "new" => t.skipped))
           /\ t.calls > 0 => ~equal
           /\ \A e \in issued :
                 (e.op = "inventory" /\ e.key = t.src.code) => ~equal

\* an inventory sync has skipped a pair with equal stock and has called
\* update_inventory for a pair whose stock differs or is not known
C27_Witness ==
    /\ pc = "inv_run"
    /\ \E k \in 1..Len(dir["inventory"].tasks) :
          /\ dir["inventory"].tasks[k].skipped
          /\ dir["inventory"].tasks[k].tgt.inventory_quantity # <<>>
    /\ \E k \in 1..Len(dir["inventory"].tasks) :
          dir["inventory"].tasks[k].calls > 0

\* C28: a call of MoyskladClient._make_request that met nothing but 429
\* answers, however many, before a successful answer (or is still waiting for
\* one) has not raised and has not returned without a result.
C28_MoyskladThrottlingAbsorbed ==
    (/\ req.client = "ms"
     /\ \A n \in 1..Len(req.log) : req.log[n].status \in {200, 429})
    => /\ req.pc # "raised"
       /\ req.pc = "returned" => (req.result = "json"
                                   /\ req.log[Len(req.log)].status = 200)

\* C29: a call of ShopifyClient._execute_graphql that was answered with a 429
\* has not raised: it has waited for the cooldown.
C29_ShopifyThrottlingAbsorbed ==
    (/\ req.client = "sh"
     /\ \E n \in 1..Len(req.log) : req.log[n].status = 429)
    => /\ req.pc # "raised"
       /\ req.slept > 0

\* C30: every action a direction has built has a source record with an
\* identity key; its counterpart is the last record carrying that key in the
\* sequence the lookup was built from, and there is none (the action is a
\* create) exactly when no record of the sequence carries the key; no remote
\* call is sent for a record without a key.
C30_CatalogIndex ==
    /\ \A e \in issued : e.key # None
    /\ \A w \in Workers :
          \A k \in 1..Len(dir[w].tasks) :
             LET t == dir[w].tasks[k]
                 key == IF Target(w) = "sh" THEN t.src.code ELSE t.src.sku
                 L == IF w = "ms2sh" THEN all_shopify_products
                      ELSE IF w = "sh2ms" THEN all_moysklad_products
                      ELSE IF w = "price_sh2ms" THEN moysklad_products
                      ELSE shopify_products
                 KeyOf(r) == IF Target(w) = "sh" THEN r.sku ELSE r.code
                 matches == {n \in 1..Len(L) : KeyOf(L[n]) = key}
             IN  /\ key # None
                 /\ matches = {} => (t.tgt = NoProduct /\ t.op = "create")
                 /\ matches # {}
                    => /\ t.op # "create"
                       /\ \E n \in matches :
                             /\ \A m \in matches : m <= n
                             /\ t.tgt = L[n]

\* the Shopify-to-Moysklad direction has built an update whose counterpart is
\* the second of two Moysklad records with one code, from a Shopify catalog
\* that also holds a record without sku
C30_Witness ==
    /\ Len(all_moysklad_products) = 2
    /\ all_moysklad_products[1].code = all_moysklad_products[2].code
    /\ \E n \in 1..Len(shopify_products) : shopify_products[n].sku = None
    /\ \E k \in 1..Len(dir["sh2ms"].tasks) :
          /\ dir["sh2ms"].tasks[k].op = "update"
          /\ dir["sh2ms"].tasks[k].tgt = all_moysklad_products[2]

\* C31: in run_incremental_sync the inventory phase and the price phase fetch
\* with the cutoff the run began with: a Moysklad record modified after the
\* watermark held when run_incremental_sync was called and before the run
\* read its start time is among the Moysklad records the inventory phase and
\* the price phase have fetched.
C31_IncrementalPhasesShareCutoff ==
    (/\ job.kind = "incremental"
     /\ job.st = "running"
     /\ job.watermark # None
     /\ pc \in {"inv_fetch_sh", "pr_fetch_sh"})
    => \A n \in 1..Len(msCat) :
           (/\ HasUpdatedAt(msCat[n])
            /\ msCat[n].updated_at > job.watermark
            /\ msCat[n].updated_at < job.start_time)
           => \E m \in 1..Len(moysklad_products) : moysklad_products[m] = msCat[n]

\* C32: sync_product_inventory and sync_product_prices never write
\* last_sync_time, whether they return or raise: from the call of either to
\* its end the watermark keeps its value, and the only step that changes it
\* is the return of sync_products from the gather of its directions.
C32_OnlySyncProductsWritesWatermark ==
    [][/\ (\/ pc \in {"inv_fetch_ms", "inv_fetch_sh", "inv_run",
                       "pr_fetch_ms", "pr_fetch_sh", "pr_run"}
           \/ pc' \in {"inv_fetch_ms", "pr_fetch_ms"})
          => last_sync_time' = last_sync_time
       /\ last_sync_time' # last_sync_time
          => (pc = "gather" /\ pc' = "idle" /\ outcome' = "returned")]_vars

\* inside run_complete_sync or run_incremental_sync the price sync has returned
\* after the inventory sync: the watermark is the one sync_products left
C32_Witness ==
    /\ job.phases = JobPhases
    /\ pc = "idle"
    /\ outcome = "returned"
    /\ PriceWorker # "none"
    /\ dir[PriceWorker].pc = "done"
    /\ last_sync_time # None
    /\ last_sync_time = prev_sync_time
    /\ last_sync_time < start_time

\* C33: in an incremental price sync with a watermark, every record of the
\* authoritative platform that was modified since the cutoff, carries a price
\* and has its identity key on the receiving platform is among the pairs the
\* price direction compares, also when the receiving record was not modified
\* since the cutoff.
C33_IncrementalPriceCoversModified ==
    (/\ pc = "pr_run"
     /\ ~full_sync
     /\ modified_since # None
     /\ PriceWorker # "none")
    => LET w == PriceWorker
           source == IF Target(w) = "sh" THEN msCat ELSE shCat
           target == IF Target(w) = "sh" THEN shCat ELSE msCat
           TargetKey(p) == IF Target(w) = "sh" THEN p.sku ELSE p.code
       IN  \A n \in 1..Len(source) :
              (/\ HasUpdatedAt(source[n])
               /\ source[n].updated_at >= modified_since
               /\ Key(w, source[n]) # None
               /\ source[n].price # None
               /\ \E m \in 1..Len(target) : TargetKey(target[m]) = Key(w, source[n]))
              => \E v \in 1..Len(dir[w].valid_products) :
                     dir[w].valid_products[v] = source[n]

\* C34: when sync_product_inventory has returned and none of its inventory
\* actions failed, the Shopify record of every pair it formed holds the stock
\* quantity of its Moysklad record (0 where Moysklad has none).
C34_InventoryConverges ==
    (/\ pc = "idle"
     /\ outcome = "returned"
     /\ dir["inventory"].pc = "done"
     /\ \A e \in settled : e.res # "failed")
    => \A v \in 1..Len(dir["inventory"].valid_products) :
          \A m \in 1..Len(shCat) :
             shCat[m].sku = dir["inventory"].valid_products[v].code
             => shCat[m].inventory_quantity
                    = <<MoyskladStock(dir["inventory"].valid_products[v])>>

\* C35: from its call to its end sync_product_inventory leaves the Moysklad
\* catalog as it is and adds no record to the Shopify catalog; every remote
\* call it sends is an inventory call that names a Shopify record whose sku
\* is the code of a fetched Moysklad record, and a Shopify record changes
\* only in its quantity (and its stamp) and only when such a call named it.
C35_InventoryOneDirectional ==
    [][(pc \in {"inv_fetch_ms", "inv_fetch_sh", "inv_run"})
       => /\ msCat' = msCat
          /\ Len(shCat') = Len(shCat)
          /\ \A e \in issued' :
                /\ e.op = "inventory"
                /\ e.key # None
                /\ \E n \in 1..Len(moysklad_products) : moysklad_products[n].code = e.key
                /\ \E m \in 1..Len(shCat) : shCat[m].id = e.id /\ shCat[m].sku = e.key
          /\ \A m \in 1..Len(shCat) :
                shCat'[m] # shCat[m]
                => /\ shCat'[m] = [shCat[m] EXCEPT
                                      !.inventory_quantity = shCat'[m].inventory_quantity,
                                      !.updated_at = shCat'[m].updated_at]
                   /\ (\E e \in issued' : e.id = shCat[m].id)
      ]_vars

\* the inventory sync has written the quantity of a Shopify record while a
\* fetched Moysklad record has no identity key or no counterpart
C35_Witness ==
    /\ pc = "inv_run"
    /\ issued # {}
    /\ \E m \in 1..Len(shCat) :
          /\ shCat[m].updated_at >= start_time
          /\ \E e \in issued : e.id = shCat[m].id
    /\ \E n \in 1..Len(moysklad_products) :
          \/ moysklad_products[n].code = None
          \/ \A m \in 1..Len(shCat) : shCat[m].sku # moysklad_products[n].code

\* C36: while a sync_products call is in progress, the remote mutation calls
\* in flight, those of the Moysklad-to-Shopify direction and those of the
\* Shopify-to-Moysklad direction counted together, are at most
\* MAX_CONCURRENT_TASKS.
C36_ConcurrencyCapAcrossDirections ==
    pc = "gather"
    => Cardinality({wk \in Directions \X (1..BATCH_SIZE) :
                       /\ wk[2] \in DOMAIN dir[wk[1]].tasks
                       /\ dir[wk[1]].tasks[wk[2]].st = "inflight"})
           <= MAX_CONCURRENT_TASKS

\* C37: the create calls a direction of one sync_products call has sent carry
\* pairwise different identity keys: no key is created twice by a direction,
\* also when several source records share the key.
C37_OneCreatePerKey ==
    \A e1, e2 \in issued :
       (/\ e1.w \in Directions
        /\ e1.w = e2.w
        /\ e1.op = "create"
        /\ e2.op = "create"
        /\ e1.key = e2.key)
       => e1 = e2

\* C38: a call of MoyskladClient._make_request that has returned hands back
\* the body of the answer to its last request, and that answer is no error
\* and no 429: the call never returns without a result.
C38_ReturnsBodyOrRaises ==
    (req.client = "ms" /\ req.pc = "returned")
    => /\ req.result = "json"
       /\ req.log # <<>>
       /\ req.log[Len(req.log)].status \in {200, 201}

\* an answer that sends _make_request to its except branch: no answer at all,
\* or an error status other than 429
IsFailure(a) == a.status = None \/ (a.status >= 400 /\ a.status # 429)

\* C39: a call of MoyskladClient._make_request comes to an end whatever the
\* answers are, and sends at most max_retries requests; every 429 and every
\* failed answer counts against the same attempt counter; the call raises
\* exactly when a failed answer has used the counter up.
C39_MakeRequestBounded ==
    /\ [](req.client = "ms"
            => /\ Len(req.log) <= max_retries
               /\ req.retry_count <= max_retries
               /\ req.retry_count
                      = Cardinality({n \in 1..Len(req.log) :
                                        IsFailure(req.log[n]) \/ req.log[n].status = 429})
               /\ req.pc = "raised"
                      <=> (/\ req.log # <<>>
                           /\ IsFailure(req.log[Len(req.log)])
                           /\ req.retry_count = max_retries))
    /\ (req.client = "ms" /\ req.pc = "sending") ~> (req.pc \in {"returned", "raised"})

\* _make_request has raised on its third request, after a failed answer and a
\* 429 answer
C39_Witness ==
    /\ req.client = "ms"
    /\ req.pc = "raised"
    /\ Len(req.log) = max_retries
    /\ \E n \in 1..Len(req.log) : req.log[n].status = 429
    /\ \E n \in 1..(Len(req.log) - 1) : IsFailure(req.log[n])

\* C40: when main() is run again over the same Shopify catalog, it sends no
\* create_product call for a product that a create_product call of an
\* earlier run has created on Moysklad.
C40_RerunCreatesNothingAgain ==
    \A m, n \in 1..Len(entry.posted) :
       (/\ entry.posted[m].run < entry.posted[n].run
        /\ entry.posted[m].result = "id")
       => entry.posted[m].data # entry.posted[n].data

====
